---- MODULE Spec2Model ----
(***************************************************************************)
(* Model of the gaia-audio processing node.                                *)
(*                                                                         *)
(*   SpecDl : the artifact fetcher of processing/src/download.rs, one      *)
(*            model directory followed across process restarts             *)
(*            (ensure_model_files, the backoff marker, the resumable       *)
(*            download, verification and extraction).                      *)
(*   Spec   : the processing server of processing/src/main.rs: start-up    *)
(*            (acquire and load every model), the poll loop of client.rs   *)
(*            and the reporting thread of reporting.rs.                    *)
(*   FairSpec : Spec with the poll thread scheduled fairly.                *)
(***************************************************************************)
EXTENDS Integers, Sequences, FiniteSets, TLC

\* ------------------------------------------------------------------------
\* Bounds of the model
\* ------------------------------------------------------------------------

\* Number of runs of ensure_model_files (process starts) that are followed.
MaxInvocations == 3

\* Length of the remote archive in bytes.
ArchiveLen == 3

\* ------------------------------------------------------------------------
\* Program constants (download.rs)
\* ------------------------------------------------------------------------

MAX_RESTART_BACKOFF_SECS == 600

MAX_RETRIES == 5

INITIAL_BACKOFF == 5

\* ------------------------------------------------------------------------
\* State
\* ------------------------------------------------------------------------

VARIABLES
    \* --- the artifact fetcher (SpecDl) ---
    dlPc,          \* position inside / between runs of ensure_model_files
    clock,         \* wall clock, seconds since the epoch
    marker,        \* the .download_backoff file: [exists, data (tokens)]
    part,          \* the .download.part file:    [exists, data (bytes)]
    tflite,        \* TRUE iff the expected model file exists in base_dir
    md5,           \* the variant's declared digest: "none", "good", "wrong"
    zipHasModel,   \* TRUE iff the remote zip holds the expected model file
    attempt,       \* loop variable of download_with_resume
    backoff,       \* local `backoff` of download_with_resume (seconds)
    nreq,          \* HTTP requests issued by the current run
    invocations,   \* runs of ensure_model_files so far
    prefixRun,     \* .part held a prefix of the archive when the download began
    lastErr,       \* why the last run failed ("" when it did not)
    \* --- the processing server (Spec) ---
    mainPc,        \* position of main()
    mIdx,          \* index of the manifest main's current loop is at
    acq,           \* per model: result of ensure_model_files
    markers,       \* per model: the .download_backoff file of its base_dir
    loadRes,       \* per model: result of load_model
    loaded,        \* `models`: the loaded models, in load order
    shutdown,      \* the SHUTDOWN flag
    urls,          \* `capture_urls`
    pollPc,        \* position of poll_and_process
    peerIdx,       \* index into capture_urls
    recordings,    \* the listing being iterated
    recIdx,        \* index into recordings
    processed,     \* the processed-set of <<peer, filename>> keys
    analysis,      \* outcome of the last process_file call
    remote,        \* per peer: the recordings it holds
    local,         \* per filename: content of processing_tmp/<filename>
    chan,          \* the result channel
    repPc,         \* position of the reporting thread
    repPayload,    \* the batch the reporting thread is handling
    repIdx,        \* index of the detection being reported
    repFault,      \* environment failures injected while handling the batch
    rows,          \* rows inserted in `detections`
    clips,         \* extracted clips
    pngs,          \* rendered spectrograms
    everFailed,    \* peers whose listing request has failed in this session
    faults,        \* environment failures injected so far
    \* the size of the processed-set over many iterations (SpecCap)
    capPc,         \* position of the loop: "off", "top", "iter"
    plen,          \* processed.len()
    capLeft,       \* new recordings still to handle in this iteration
    relisted,      \* the recording whose DELETE fails: listed, key known, runs
    \* one call of a function of the detection pipeline (SpecFh, SpecAn)
    fnPc,          \* "off", "in" (arguments bound), "out" (returned)
    fnIn,          \* the data argument
    fnCfg,         \* the configuration the call reads
    fnOut,         \* the value returned
    \* --- name claiming on the local network (SpecReg) ---
    mdns,          \* the instances registered for the role's service type
    reg,           \* per node: position in register, `existing`, its name
    \* --- the result channel under load (SpecCh) ---
    txPc,          \* the poll thread: "off", "idle", "blocked" in send
    rxPc,          \* the reporting thread: "off", "recv", "busy", "dead"
    queue,         \* the batches the channel holds
    nextBatch,     \* the number of the batch the poll thread builds next
    sentOk,        \* the batches whose send returned Ok, in order
    received       \* the batches recv returned, in order

dlVars == <<dlPc, clock, marker, part, tflite, md5, zipHasModel, attempt,
            backoff, nreq, invocations, prefixRun, lastErr>>

srvVars == <<mainPc, mIdx, acq, markers, loadRes, loaded, shutdown, urls,
             pollPc, peerIdx, recordings, recIdx, processed, analysis, remote,
             local, chan, repPc, repPayload, repIdx, repFault, rows, clips,
             pngs, everFailed, faults>>

capVars == <<capPc, plen, capLeft, relisted>>

fnVars == <<fnPc, fnIn, fnCfg, fnOut>>

regVars == <<mdns, reg>>

chVars == <<txPc, rxPc, queue, nextBatch, sentOk, received>>

vars == <<dlVars, srvVars, capVars, fnVars, regVars, chVars>>

\* What the fetcher's steps leave alone.
nonDlVars == <<srvVars, capVars, fnVars, regVars, chVars>>

\* What the server's steps leave alone.
nonSrvVars == <<dlVars, capVars, fnVars, regVars, chVars>>

\* What the steps of the processed-set size leave alone.
nonCapVars == <<dlVars, srvVars, fnVars, regVars, chVars>>

\* What a call of a pipeline function leaves alone.
nonFnVars == <<dlVars, srvVars, capVars, regVars, chVars>>

\* What the steps of register leave alone.
nonRegVars == <<dlVars, srvVars, capVars, fnVars, chVars>>

\* What the steps of the channel under load leave alone.
nonChVars == <<dlVars, srvVars, capVars, fnVars, regVars>>

\* ------------------------------------------------------------------------
\* Files and the remote archive
\* ------------------------------------------------------------------------

NoFile == [exists |-> FALSE, data |-> <<>>]

File(d) == [exists |-> TRUE, data |-> d]

\* The bytes of the archive as the server holds them.
Archive == [i \in 1..ArchiveLen |-> i]

Prefix(s, n) == SubSeq(s, 1, n)

IsPrefix(s, t) == Len(s) <= Len(t) /\ s = Prefix(t, Len(s))

Min(a, b) == IF a < b THEN a ELSE b

\* Leftovers in .part that are not a prefix of the archive.
GarbageParts == {<<7>>, [i \in 1..(ArchiveLen + 1) |-> 7]}

\* ------------------------------------------------------------------------
\* Backoff marker helpers (download.rs 366-434)
\* ------------------------------------------------------------------------

\* "{resume_at} {next_backoff}" as the whitespace-separated tokens of the file.
marker_format(resume_at, next_backoff) == <<resume_at, next_backoff>>

\* parts.next().and_then(parse).unwrap_or(0)
marker_resume_at(m) == IF m.exists /\ Len(m.data) >= 1 THEN m.data[1] ELSE 0

\* read_to_string(..).ok().and_then(nth(1) .. parse).unwrap_or(0)
marker_prev_backoff(m) == IF m.exists /\ Len(m.data) >= 2 THEN m.data[2] ELSE 0

\* wait_for_backoff: the seconds slept before the first request.
backoff_wait_nosleep(m, now) == 0

backoff_wait(m, now) ==
    IF ~m.exists THEN 0
    ELSE IF now < marker_resume_at(m) THEN marker_resume_at(m) - now ELSE 0

next_backoff_nocap(prev) == IF prev = 0 THEN INITIAL_BACKOFF ELSE prev * 2

next_backoff(prev) ==
    IF prev = 0 THEN INITIAL_BACKOFF
    ELSE Min(prev * 2, MAX_RESTART_BACKOFF_SECS)

\* A failure that leaves the marker file as it was.
write_backoff_marker_skipped(m, now) == m

write_backoff_marker(m, now) ==
    LET nb == next_backoff(marker_prev_backoff(m))
    IN  File(marker_format(now + nb, nb))

clear_backoff_marker_kept(m) == m

clear_backoff_marker(m) == NoFile

\* ------------------------------------------------------------------------
\* download_with_resume (download.rs 503-622)
\* ------------------------------------------------------------------------

\* part_path.metadata().map(|m| m.len()).unwrap_or(0)
existing_len(p) == IF p.exists THEN Len(p.data) ELSE 0

\* What the archive host can answer to a GET carrying `Range: bytes=n-`
\* (no Range header when n = 0).
Responses(n) ==
    {"send_err", "http_err", "200"}
      \cup (IF n > 0 /\ n < ArchiveLen THEN {"206"} ELSE {})
      \cup (IF n > 0 /\ n >= ArchiveLen THEN {"416"} ELSE {})

Body(status, n) ==
    IF status = "206" THEN SubSeq(Archive, n + 1, ArchiveLen) ELSE Archive

\* OpenOptions .append(append).truncate(!append): the content the body is
\* written after.
open_part_keep(p, append) == IF p.exists THEN p.data ELSE <<>>

open_part(p, append) == IF append /\ p.exists THEN p.data ELSE <<>>

\* stream_to_file after k bytes of the body were written.
stream_to_file(p, append, body, k) ==
    File(open_part(p, append) \o Prefix(body, k))

\* ------------------------------------------------------------------------
\* ensure_model_files, step by step
\* ------------------------------------------------------------------------

DlInit ==
    /\ dlPc = "idle"
    /\ clock = 1000
    /\ marker \in {NoFile} \cup
                  {File(marker_format(1000 + b, b)) : b \in {5, 320, 600}}
    /\ part \in {NoFile}
                \cup {File(Prefix(Archive, n)) : n \in 0..ArchiveLen}
                \cup {File(g) : g \in GarbageParts}
    /\ tflite \in BOOLEAN
    /\ md5 \in {"none", "good", "wrong"}
    /\ zipHasModel \in BOOLEAN
    /\ attempt = 0
    /\ backoff = 0
    /\ nreq = 0
    /\ invocations = 0
    /\ prefixRun = FALSE
    /\ lastErr = ""

\* A (re)start of the process reaches ensure_model_files `delay` seconds after
\* the previous run ended (download.rs 33-55).
ensure_model_files(delay) ==
    /\ dlPc \in {"idle", "ret_ok", "ret_err"}
    /\ invocations < MaxInvocations
    /\ invocations' = invocations + 1
    /\ clock' = clock + delay
    /\ nreq' = 0
    /\ attempt' = 0
    /\ backoff' = 0
    /\ prefixRun' = FALSE
    /\ lastErr' = ""
    /\ IF tflite
         THEN /\ marker' = clear_backoff_marker(marker)
              /\ dlPc' = "ret_ok"
         ELSE /\ marker' = marker
              /\ dlPc' = "backoff"
    /\ UNCHANGED <<part, tflite, md5, zipHasModel>>
    /\ UNCHANGED nonDlVars

\* wait_for_backoff, then the entry of download_with_resume.
wait_for_backoff ==
    /\ dlPc = "backoff"
    /\ clock' = clock + backoff_wait(marker, clock)
    /\ attempt' = 1
    /\ backoff' = INITIAL_BACKOFF
    /\ prefixRun' = IsPrefix(part.data, Archive)
    /\ dlPc' = "attempt"
    /\ UNCHANGED <<marker, part, tflite, md5, zipHasModel, nreq, invocations,
                   lastErr>>
    /\ UNCHANGED nonDlVars

\* A loop that gives up one attempt later.
last_attempt_late(n) == n = MAX_RETRIES + 1

\* if attempt == MAX_RETRIES
last_attempt(n) == n = MAX_RETRIES

\* The tail of a failed attempt: give up after MAX_RETRIES, else sleep, double.
RetryOrFail ==
    IF last_attempt(attempt)
      THEN /\ dlPc' = "dl_err"
           /\ UNCHANGED <<attempt, backoff, clock>>
      ELSE /\ dlPc' = "attempt"
           /\ clock' = clock + backoff
           /\ backoff' = backoff * 2
           /\ attempt' = attempt + 1

\* One iteration of the loop of download_with_resume.
download_attempt ==
    /\ dlPc = "attempt"
    /\ nreq' = nreq + 1
    /\ \E status \in Responses(existing_len(part)) :
         CASE status \in {"send_err", "http_err"} ->
                /\ part' = part
                /\ RetryOrFail
           [] status = "416" ->
                /\ part' = part
                /\ dlPc' = "dl_ok"
                /\ UNCHANGED <<attempt, backoff, clock>>
           [] OTHER ->
                LET body   == Body(status, existing_len(part))
                    append == (status = "206")
                IN  \E k \in 0..Len(body), interrupted \in BOOLEAN :
                      /\ k < Len(body) => interrupted
                      /\ part' = stream_to_file(part, append, body, k)
                      /\ IF interrupted
                           THEN RetryOrFail
                           ELSE /\ dlPc' = "dl_ok"
                                /\ UNCHANGED <<attempt, backoff, clock>>
    /\ UNCHANGED <<marker, tflite, md5, zipHasModel, invocations, prefixRun,
                   lastErr>>
    /\ UNCHANGED nonDlVars

\* A download that is never compared with the declared digest.
md5_matches_unchecked(bytes) == TRUE

\* md5::compute compared with the declared digest.
md5_matches(bytes) ==
    CASE md5 = "none"  -> TRUE
      [] md5 = "good"  -> bytes = Archive
      [] md5 = "wrong" -> FALSE

\* zip::ZipArchive::new succeeds on the archive's bytes only.
zip_opens(bytes) == bytes = Archive

\* download_and_extract after download_with_resume returned Ok (471-498).
verify_and_extract ==
    /\ dlPc = "dl_ok"
    /\ IF ~md5_matches(part.data)
         THEN /\ part' = NoFile
              /\ lastErr' = "md5"
              /\ dlPc' = "de_err"
              /\ UNCHANGED tflite
         ELSE IF ~zip_opens(part.data)
         THEN /\ lastErr' = "zip"
              /\ dlPc' = "de_err"
              /\ UNCHANGED <<part, tflite>>
         ELSE /\ tflite' = zipHasModel
              /\ part' = NoFile
              /\ lastErr' = ""
              /\ dlPc' = "de_ok"
    /\ UNCHANGED <<clock, marker, md5, zipHasModel, attempt, backoff, nreq,
                   invocations, prefixRun>>
    /\ UNCHANGED nonDlVars

\* download_and_extract returned Err (download.rs 72-75).
fetch_failed ==
    /\ dlPc \in {"dl_err", "de_err"}
    /\ marker' = write_backoff_marker(marker, clock)
    /\ lastErr' = IF dlPc = "dl_err" THEN "network" ELSE lastErr
    /\ dlPc' = "ret_err"
    /\ UNCHANGED <<clock, part, tflite, md5, zipHasModel, attempt, backoff,
                   nreq, invocations, prefixRun>>
    /\ UNCHANGED nonDlVars

\* The check that the model file now exists (download.rs 77-110).
post_extract ==
    /\ dlPc = "de_ok"
    /\ IF ~tflite
         THEN /\ marker' = write_backoff_marker(marker, clock)
              /\ lastErr' = "missing"
              /\ dlPc' = "ret_err"
         ELSE /\ marker' = clear_backoff_marker(marker)
              /\ lastErr' = ""
              /\ dlPc' = "ret_ok"
    /\ UNCHANGED <<clock, part, tflite, md5, zipHasModel, attempt, backoff,
                   nreq, invocations, prefixRun>>
    /\ UNCHANGED nonDlVars

\* Seconds between the end of one run and the next start of the process.
RestartDelays == {0, 20}

DlNext ==
    \/ \E delay \in RestartDelays : ensure_model_files(delay)
    \/ wait_for_backoff
    \/ download_attempt
    \/ verify_and_extract
    \/ fetch_failed
    \/ post_extract


\* ------------------------------------------------------------------------
\* The processing server: bounds, constants and helpers
\* ------------------------------------------------------------------------

\* Number of distinct recording filenames.
NumFiles == 2

\* Number of environment failures (a request, a disk write, an inference, a
\* database insert that fails) injected in one behaviour.
MaxFaults == 1

\* mpsc::sync_channel::<ReportPayload>(16)
CHAN_CAP == 16

\* if processed.len() > 10_000
PROCESSED_MAX == 10000

\* The model manifests discovered at start-up: two, so that a failure of one
\* leaves another one to go on with.
Models == {1, 2}

NumModels == Cardinality(Models)

\* The capture peers on the network: the configured one and one more.
Peers == {1, 2}

NumPeers == Cardinality(Peers)

Files == 1..NumFiles

\* config.capture_server_url names peer 1.
ConfigUrl == 1

\* What each capture peer holds when the server starts: peer 1 holds every
\* recording name, the other peers hold the first one (same name, other audio).
InitRemote == [p \in Peers |-> IF p = 1 THEN Files ELSE {1}]

RECURSIVE Listing(_)
\* GET /api/recordings: the recordings of a peer as a list.
Listing(S) ==
    IF S = {} THEN <<>>
    ELSE LET f == CHOOSE x \in S : \A y \in S : x <= y
         IN  <<f>> \o Listing(S \ {f})

ToSet(q) == {q[i] : i \in 1..Len(q)}

\* An advertised address: the host it names, its family, is_loopback().
Addr(h, v4, lo) == [host |-> h, is_ipv4 |-> v4, is_loopback |-> lo]

\* The peer record discover_peers builds for capture peer i, which advertises
\* one routable IPv4 address.
Peer(i) == [addresses |-> <<Addr(i, TRUE, FALSE)>>]

\* Peer::http_url: the first IPv4 address, else the first address; None
\* without an address.  The URL names the host of the address.
http_url(p) ==
    LET a == p.addresses
        v4 == {i \in 1..Len(a) : a[i].is_ipv4}
    IN  IF v4 # {} THEN <<a[CHOOSE i \in v4 : \A j \in v4 : i <= j].host>>
        ELSE IF a # <<>> THEN <<a[1].host>>
        ELSE <<>>

RECURSIVE filter_map_http_url(_)
\* peers.iter().filter_map(|p| p.http_url()).collect()
filter_map_http_url(peers) ==
    IF peers = <<>> THEN <<>>
    ELSE http_url(Head(peers)) \o filter_map_http_url(Tail(peers))

\* The peer lists discovery can report: none, or every peer.
Discovered == {<<>>, [i \in 1..NumPeers |-> Peer(i)]}

\* resolve_capture_urls: the URLs of the discovered peers, else the
\* configured URL.
resolve_capture_urls(found) ==
    IF found # <<>> THEN filter_map_http_url(found) ELSE <<ConfigUrl>>

NoPayload == [file |-> 0, src |-> 0, dets |-> <<>>]

NoAnalysis == [ran |-> FALSE, ok |-> FALSE, sent |-> FALSE,
               failed |-> {}, dets |-> <<>>]

\* std::panic::catch_unwind around load_model: a panic becomes Err(_).
catch_unwind_absent(res) == res

catch_unwind(res) == IF res = "panic" THEN "caught" ELSE res

\* extract_detection's output path: built from the detection's domain, name,
\* date and time (all from the filename and the model), not from the peer.
ClipPath(f, m) == <<f, m>>

\* One row of `detections` per (source node, file, model) detection.
DetIds == Peers \X Files \X Models

SrvInit ==
    /\ mainPc = "ensure"
    /\ mIdx = 1
    /\ acq = [m \in Models |-> "pending"]
    /\ markers = [m \in Models |-> NoFile]
    /\ loadRes = [m \in Models |-> "pending"]
    /\ loaded = <<>>
    /\ shutdown = FALSE
    /\ urls = <<>>
    /\ pollPc = "off"
    /\ peerIdx = 0
    /\ recordings = <<>>
    /\ recIdx = 0
    /\ processed = {}
    /\ analysis = NoAnalysis
    /\ remote = InitRemote
    /\ local = [f \in Files |-> 0]
    /\ chan = <<>>
    /\ repPc = "off"
    /\ repPayload = NoPayload
    /\ repIdx = 0
    /\ repFault = {}
    /\ rows = [d \in DetIds |-> 0]
    /\ clips = {}
    /\ pngs = {}
    /\ everFailed = {}
    /\ faults = 0

\* The fetcher's variables while the server specification runs.
DlParked ==
    /\ dlPc = "idle"
    /\ clock = 1000
    /\ marker = NoFile
    /\ part = NoFile
    /\ tflite = FALSE
    /\ md5 = "none"
    /\ zipHasModel = TRUE
    /\ attempt = 0
    /\ backoff = 0
    /\ nreq = 0
    /\ invocations = 0
    /\ prefixRun = FALSE
    /\ lastErr = ""

\* ------------------------------------------------------------------------
\* main(): start-up (main.rs 55-160)
\* ------------------------------------------------------------------------

mainVarsRest == <<shutdown, urls, pollPc, peerIdx, recordings, recIdx,
                  processed, analysis, remote, local, chan, repPc, repPayload,
                  repIdx, repFault, rows, clips, pngs, everFailed, faults>>

\* An environment outcome `ok` is taken; a failure spends one of MaxFaults.
Env(ok) ==
    /\ ~ok => faults < MaxFaults
    /\ faults' = IF ok THEN faults ELSE faults + 1

\* The content of a recording decides what a model detects in it: recording
\* name 1 holds one confident detection for every model, the others none.
Detects(f, m) == f = 1

\* for m in &mut manifests { download::ensure_model_files(m, &variant)?; .. }
ensure_step ==
    /\ mainPc = "ensure"
    /\ \E out \in {"ok", "network", "md5", "zip", "missing"} :
         /\ acq' = [acq EXCEPT ![mIdx] = out]
         /\ IF out = "ok"
              THEN /\ markers' = [markers EXCEPT
                                    ![mIdx] = clear_backoff_marker(@)]
                   /\ IF mIdx = NumModels
                        THEN mainPc' = "load" /\ mIdx' = 1
                        ELSE mainPc' = "ensure" /\ mIdx' = mIdx + 1
              ELSE /\ markers' = [markers EXCEPT
                                    ![mIdx] = write_backoff_marker(@, clock)]
                   /\ mainPc' = "exit_err"
                   /\ mIdx' = mIdx
    /\ UNCHANGED <<loadRes, loaded>>
    /\ UNCHANGED mainVarsRest
    /\ UNCHANGED nonSrvVars

\* for m in &manifests { catch_unwind(|| load_model(m, &config)) .. }
load_step ==
    /\ mainPc = "load"
    /\ \E res \in {"ok", "err", "panic"} :
         LET r == catch_unwind(res)
         IN  /\ loadRes' = [loadRes EXCEPT ![mIdx] = res]
             /\ loaded' = IF r = "ok" THEN Append(loaded, mIdx) ELSE loaded
             /\ IF r = "panic"
                  THEN mainPc' = "exit_err" /\ mIdx' = mIdx
                  ELSE IF mIdx = NumModels
                  THEN mainPc' = "start" /\ mIdx' = mIdx
                  ELSE mainPc' = "load" /\ mIdx' = mIdx + 1
    /\ UNCHANGED <<acq, markers>>
    /\ UNCHANGED mainVarsRest
    /\ UNCHANGED nonSrvVars

\* Discovery, the Ctrl-C handler, the reporting thread, and the entry of
\* poll_and_process up to its loop (main.rs 112-160, client.rs 41-72).
start_poll ==
    /\ mainPc = "start"
    /\ \E found \in Discovered : urls' = resolve_capture_urls(found)
    /\ mainPc' = "poll"
    /\ pollPc' = "top"
    /\ repPc' = "recv"
    /\ UNCHANGED <<mIdx, acq, markers, loadRes, loaded, shutdown, peerIdx,
                   recordings, recIdx, processed, analysis, remote, local,
                   chan, repPayload, repIdx, repFault, rows, clips, pngs,
                   everFailed, faults>>
    /\ UNCHANGED nonSrvVars

\* The Ctrl-C handler: SHUTDOWN.store(true).
ctrl_c ==
    /\ mainPc = "poll"
    /\ ~shutdown
    /\ shutdown' = TRUE
    /\ UNCHANGED <<mainPc, mIdx, acq, markers, loadRes, loaded, urls, pollPc,
                   peerIdx, recordings, recIdx, processed, analysis, remote,
                   local, chan, repPc, repPayload, repIdx, repFault, rows,
                   clips, pngs, everFailed, faults>>
    /\ UNCHANGED nonSrvVars

\* ------------------------------------------------------------------------
\* poll_and_process (client.rs 74-184)
\* ------------------------------------------------------------------------

\* Top of the loop: shutdown check, no-models idle, periodic re-discovery.
poll_top ==
    /\ mainPc = "poll"
    /\ pollPc = "top"
    /\ IF shutdown
         THEN /\ mainPc' = "drop_tx"
              /\ pollPc' = "exited"
              /\ UNCHANGED <<urls, peerIdx>>
         ELSE IF loaded = <<>>
         THEN UNCHANGED <<mainPc, pollPc, urls, peerIdx>>
         ELSE /\ \/ urls' = urls
                 \/ \E found \in Discovered :
                      urls' = resolve_capture_urls(found)
              /\ peerIdx' = 1
              /\ pollPc' = "peer"
              /\ mainPc' = mainPc
    /\ UNCHANGED <<mIdx, acq, markers, loadRes, loaded, shutdown, recordings,
                   recIdx, processed, analysis, remote, local, chan, repPc,
                   repPayload, repIdx, repFault, rows, clips, pngs,
                   everFailed, faults>>
    /\ UNCHANGED nonSrvVars

\* A loop whose set is never found too large.
processed_overflow_never(n) == FALSE

\* if processed.len() > 10_000
processed_overflow(n) == n > PROCESSED_MAX

\* The end of one iteration: cap the processed-set, sleep poll_interval.
EndIteration ==
    /\ processed' = IF processed_overflow(Cardinality(processed))
                      THEN {} ELSE processed
    /\ pollPc' = "top"
    /\ UNCHANGED <<peerIdx, recordings, recIdx, everFailed, faults>>

\* Err(e) => { warn!(..); continue; } breaking out of the loop instead would
\* leave the remaining peers unpolled.
list_error_break(i) == Len(urls) + 1

\* Err(e) => { warn!(..); continue; }: the for loop moves to the next peer.
list_error_continue(i) == i + 1

\* for base_url in &capture_urls: shutdown check and list_recordings.
poll_peer ==
    /\ mainPc = "poll"
    /\ pollPc = "peer"
    /\ IF peerIdx > Len(urls) \/ shutdown
         THEN EndIteration
         ELSE \E listed \in BOOLEAN :
                /\ Env(listed)
                /\ processed' = processed
                /\ IF ~listed
                     THEN /\ everFailed' = everFailed \cup {urls[peerIdx]}
                          /\ peerIdx' = list_error_continue(peerIdx)
                          /\ UNCHANGED <<pollPc, recordings, recIdx>>
                     ELSE LET r == Listing(remote[urls[peerIdx]])
                          IN  /\ everFailed' = everFailed
                              /\ IF r = <<>>
                                   THEN /\ peerIdx' = peerIdx + 1
                                        /\ UNCHANGED <<pollPc, recordings,
                                                       recIdx>>
                                   ELSE /\ recordings' = r
                                        /\ recIdx' = 1
                                        /\ pollPc' = "rec"
                                        /\ peerIdx' = peerIdx
    /\ UNCHANGED <<mainPc, mIdx, acq, markers, loadRes, loaded, shutdown, urls,
                   analysis, remote, local, chan, repPc, repPayload, repIdx,
                   repFault, rows, clips, pngs>>
    /\ UNCHANGED nonSrvVars

\* A loop that never looks at the flag.
shutdown_load_skipped == FALSE

\* if shutdown.load(Ordering::Relaxed) { break; } at the head of the loop
\* over the recordings.
shutdown_load == shutdown

\* for rec in &recordings: shutdown check, processed check, download_recording.
poll_rec ==
    /\ mainPc = "poll"
    /\ pollPc = "rec"
    /\ IF recIdx > Len(recordings) \/ shutdown_load
         THEN /\ peerIdx' = peerIdx + 1
              /\ pollPc' = "peer"
              /\ UNCHANGED <<recIdx, local, faults>>
         ELSE LET p == urls[peerIdx]
                  f == recordings[recIdx]
              IN  IF <<p, f>> \in processed
                    THEN /\ recIdx' = recIdx + 1
                         /\ UNCHANGED <<peerIdx, pollPc, local, faults>>
                    ELSE \E got \in BOOLEAN :
                           /\ Env(got)
                           /\ IF got /\ f \in remote[p]
                                THEN /\ local' = [local EXCEPT ![f] = p]
                                     /\ pollPc' = "process"
                                     /\ UNCHANGED <<peerIdx, recIdx>>
                                ELSE /\ recIdx' = recIdx + 1
                                     /\ UNCHANGED <<peerIdx, pollPc, local>>
    /\ UNCHANGED <<mainPc, mIdx, acq, markers, loadRes, loaded, shutdown, urls,
                   recordings, processed, analysis, remote, chan, repPc,
                   repPayload, repIdx, repFault, rows, clips, pngs,
                   everFailed>>
    /\ UNCHANGED nonSrvVars

\* What run_analysis can do for one model on one file: return its detections
\* ("ran"), fail to read the audio (Ok(vec![])), or fail in model.predict.
Outcomes == {"ran", "read_err", "infer_err"}

RECURSIVE DetsOf(_, _, _)
\* all_detections: the detections of the models of ms on file f, in order.
DetsOf(ms, res, f) ==
    IF ms = <<>> THEN <<>>
    ELSE (IF res[Head(ms)] = "ran" /\ Detects(f, Head(ms))
            THEN <<Head(ms)>> ELSE <<>>)
           \o DetsOf(Tail(ms), res, f)

\* for model in models { let detections = run_analysis(..)?; .. }: the batch,
\* or no batch when a model's inference failed.
batch_dropped(failed) == failed # {}

\* A queue that hands out the newest payload first.
channel_send_front(q, x) == <<x>> \o q

\* report_tx.send(payload) on the mpsc channel: first in, first out.
channel_send(q, x) == Append(q, x)

\* A channel without a bound.
channel_full_never(q) == FALSE

\* mpsc::sync_channel(16): send blocks while the buffer holds 16 payloads.
channel_full(q) == Len(q) >= CHAN_CAP

\* analysis::process_file: run_analysis for every model, then send the batch.
process_file ==
    /\ mainPc = "poll"
    /\ pollPc = "process"
    /\ LET p == urls[peerIdx]
           f == recordings[recIdx]
       IN  IF local[f] = 0
             THEN \* std::fs::metadata(file_path)? fails
                  /\ analysis' = [NoAnalysis EXCEPT !.ran = TRUE]
                  /\ UNCHANGED <<chan, faults>>
             ELSE \E res \in [ToSet(loaded) -> Outcomes] :
                    LET failed == {m \in ToSet(loaded) : res[m] = "infer_err"}
                        nf     == Cardinality({m \in ToSet(loaded) :
                                                 res[m] # "ran"})
                        dets   == DetsOf(loaded, res, f)
                    IN  /\ faults + nf <= MaxFaults
                        /\ faults' = faults + nf
                        /\ IF batch_dropped(failed)
                             THEN /\ analysis' =
                                       [ran |-> TRUE, ok |-> FALSE,
                                        sent |-> FALSE, failed |-> failed,
                                        dets |-> dets]
                                  /\ chan' = chan
                             ELSE \* report_tx.send blocks on a full channel
                                  /\ ~channel_full(chan)
                                  /\ chan' = channel_send(chan,
                                       [file |-> f, src |-> p, dets |-> dets])
                                  /\ analysis' =
                                       [ran |-> TRUE, ok |-> TRUE,
                                        sent |-> TRUE, failed |-> failed,
                                        dets |-> dets]
    /\ pollPc' = "unlink"
    /\ UNCHANGED <<mainPc, mIdx, acq, markers, loadRes, loaded, shutdown, urls,
                   peerIdx, recordings, recIdx, processed, remote, local,
                   repPc, repPayload, repIdx, repFault, rows, clips, pngs,
                   everFailed>>
    /\ UNCHANGED nonSrvVars

\* std::fs::remove_file(&local_path).ok()
poll_unlink ==
    /\ mainPc = "poll"
    /\ pollPc = "unlink"
    /\ local' = [local EXCEPT ![recordings[recIdx]] = 0]
    /\ pollPc' = "delete"
    /\ UNCHANGED <<mainPc, mIdx, acq, markers, loadRes, loaded, shutdown, urls,
                   peerIdx, recordings, recIdx, processed, analysis, remote,
                   chan, repPc, repPayload, repIdx, repFault, rows, clips,
                   pngs, everFailed, faults>>
    /\ UNCHANGED nonSrvVars

\* delete_recording(base_url, filename), then processed.insert(key).
poll_delete ==
    /\ mainPc = "poll"
    /\ pollPc = "delete"
    /\ LET p == urls[peerIdx]
           f == recordings[recIdx]
       IN  /\ \E deleted \in BOOLEAN :
                /\ Env(deleted)
                /\ remote' = IF deleted
                               THEN [remote EXCEPT ![p] = @ \ {f}]
                               ELSE remote
           /\ processed' = processed \cup {<<p, f>>}
    /\ recIdx' = recIdx + 1
    /\ analysis' = NoAnalysis
    /\ pollPc' = "rec"
    /\ UNCHANGED <<mainPc, mIdx, acq, markers, loadRes, loaded, shutdown, urls,
                   peerIdx, recordings, local, chan, repPc, repPayload, repIdx,
                   repFault, rows, clips, pngs, everFailed>>
    /\ UNCHANGED nonSrvVars

\* ------------------------------------------------------------------------
\* The reporting thread (reporting.rs 21-129)
\* ------------------------------------------------------------------------

\* Whether report_tx was dropped: main() is past drop(report_tx).
SenderDropped == mainPc \in {"join", "unregister", "stopped"}

\* A receiver that gives up as soon as the sender is gone.
recv_disconnected_eager(q, dropped) == dropped

\* rx.recv() returns Err only when every sender is dropped and the queue is
\* empty; queued payloads are still delivered after the sender is gone.
recv_disconnected(q, dropped) == q = <<>> /\ dropped

\* rx.recv(), then the head of process_report: write_json_file(..)?
rep_recv ==
    /\ repPc = "recv"
    /\ IF ~recv_disconnected(chan, SenderDropped)
         THEN /\ chan # <<>>
              /\ repPayload' = Head(chan)
              /\ chan' = Tail(chan)
              /\ \E json \in BOOLEAN :
                   /\ Env(json)
                   /\ IF json
                        THEN /\ repPc' = "detect"
                             /\ repIdx' = 1
                             /\ repFault' = {}
                        ELSE /\ repPc' = "cleanup"
                             /\ repIdx' = 0
                             /\ repFault' = {"json"}
         ELSE \* while let Ok(payload) = rx.recv() ends
              /\ repPc' = "done"
              /\ UNCHANGED <<chan, repPayload, repIdx, repFault, faults>>
    /\ UNCHANGED <<mainPc, mIdx, acq, markers, loadRes, loaded, shutdown, urls,
                   pollPc, peerIdx, recordings, recIdx, processed, analysis,
                   remote, local, rows, clips, pngs, everFailed>>
    /\ UNCHANGED nonSrvVars

\* let extracted_path = extract_detection(file, detection, config)?: whether
\* process_report goes on to the spectrogram and the insert.
extract_or_return(extracted) == extracted

\* One pass of `for detection in &payload.detections`: extract_detection(..)?,
\* generate_from_wav, insert_detection.
rep_detect ==
    /\ repPc = "detect"
    /\ LET f == repPayload.file
       IN  IF repIdx > Len(repPayload.dets)
             THEN /\ repPc' = "cleanup"
                  /\ UNCHANGED <<repIdx, repFault, rows, clips, pngs, faults>>
             ELSE LET m    == repPayload.dets[repIdx]
                      det  == <<repPayload.src, f, m>>
                      path == ClipPath(f, m)
                  IN  \E disk \in BOOLEAN, png \in BOOLEAN, db \in BOOLEAN :
                        LET \* extract_clip opens the source and writes the clip
                            extracted == path \in clips
                                           \/ (local[f] # 0 /\ disk)
                            nf == (IF disk THEN 0 ELSE 1)
                                  + (IF png THEN 0 ELSE 1)
                                  + (IF db THEN 0 ELSE 1)
                        IN  /\ faults + nf <= MaxFaults
                            /\ faults' = faults + nf
                            /\ (path \in clips \/ local[f] = 0) => disk
                            /\ clips' = IF extracted THEN clips \cup {path}
                                        ELSE clips
                            /\ IF extract_or_return(extracted)
                                 THEN /\ pngs' = IF extracted /\ png
                                                   THEN pngs \cup {path}
                                                   ELSE pngs
                                      /\ rows' = IF db
                                                   THEN [rows EXCEPT
                                                          ![det] = @ + 1]
                                                   ELSE rows
                                      /\ repFault' = repFault
                                           \cup (IF disk THEN {} ELSE {"disk"})
                                           \cup (IF png THEN {} ELSE {"png"})
                                           \cup (IF db THEN {} ELSE {"db"})
                                      /\ repIdx' = repIdx + 1
                                      /\ repPc' = "detect"
                                 ELSE /\ png /\ db
                                      /\ repFault' = repFault
                                           \cup (IF disk THEN {} ELSE {"disk"})
                                      /\ repPc' = "cleanup"
                                      /\ UNCHANGED <<repIdx, rows, pngs>>
    /\ UNCHANGED <<mainPc, mIdx, acq, markers, loadRes, loaded, shutdown, urls,
                   pollPc, peerIdx, recordings, recIdx, processed, analysis,
                   remote, local, chan, repPayload, everFailed>>
    /\ UNCHANGED nonSrvVars

\* delete_from_capture: the peer named by the request URL,
\* format!("{}/api/recordings/{}", config.capture_server_url, filename).
delete_from_capture_target(payload) == ConfigUrl

\* The tail of handle_queue's loop body: remove the source file if it exists,
\* else delete_from_capture(config, src).
rep_cleanup ==
    /\ repPc = "cleanup"
    /\ LET f == repPayload.file
       IN  IF local[f] # 0
             THEN /\ local' = [local EXCEPT ![f] = 0]
                  /\ remote' = remote
                  /\ faults' = faults
             ELSE /\ local' = local
                  /\ \E deleted \in BOOLEAN :
                       /\ Env(deleted)
                       /\ remote' = IF deleted
                                      THEN [remote EXCEPT
                                              ![delete_from_capture_target(
                                                  repPayload)] = @ \ {f}]
                                      ELSE remote
    /\ repPc' = "recv"
    /\ UNCHANGED <<mainPc, mIdx, acq, markers, loadRes, loaded, shutdown, urls,
                   pollPc, peerIdx, recordings, recIdx, processed, analysis,
                   chan, repPayload, repIdx, repFault, rows, clips, pngs,
                   everFailed>>
    /\ UNCHANGED nonSrvVars

\* ------------------------------------------------------------------------
\* main(): shutdown (main.rs 170-181)
\* ------------------------------------------------------------------------

\* drop(report_tx)
drop_tx ==
    /\ mainPc = "drop_tx"
    /\ mainPc' = "join"
    /\ UNCHANGED <<mIdx, acq, markers, loadRes, loaded>>
    /\ UNCHANGED mainVarsRest
    /\ UNCHANGED nonSrvVars

\* report_thread.join()
join_reporter ==
    /\ mainPc = "join"
    /\ repPc = "done"
    /\ mainPc' = "unregister"
    /\ UNCHANGED <<mIdx, acq, markers, loadRes, loaded>>
    /\ UNCHANGED mainVarsRest
    /\ UNCHANGED nonSrvVars

\* dh.shutdown(); return Ok(())
unregister ==
    /\ mainPc = "unregister"
    /\ mainPc' = "stopped"
    /\ UNCHANGED <<mIdx, acq, markers, loadRes, loaded>>
    /\ UNCHANGED mainVarsRest
    /\ UNCHANGED nonSrvVars

\* ------------------------------------------------------------------------
\* Specifications
\* ------------------------------------------------------------------------

\* ------------------------------------------------------------------------
\* The size of the processed-set over many iterations (client.rs 50-52,
\* 128-131, 166, 174-177)
\* ------------------------------------------------------------------------

\* The most recordings with new keys that the peers list in one iteration.
MaxListed == 2

\* The most downloads of one recording that are followed.
MaxRuns == 2

CapParked ==
    /\ capPc = "off"
    /\ plen = 0
    /\ capLeft = 0
    /\ relisted = [listed |-> FALSE, known |-> FALSE, runs |-> 0]

\* let mut processed: HashSet<String> = HashSet::new();
CapInit ==
    /\ capPc = "top"
    /\ plen = 0
    /\ capLeft = 0
    /\ relisted = [listed |-> FALSE, known |-> FALSE, runs |-> 0]

\* One iteration starts: the peers list k recordings whose keys are new,
\* and among the MaxListed possibly the one recording that the peer never
\* deletes (delete_recording fails each time, client.rs 156-161).
cap_poll ==
    /\ capPc = "top"
    /\ \E k \in 0..MaxListed, again \in BOOLEAN :
          /\ again => k < MaxListed
          /\ again => (relisted.known \/ relisted.runs < MaxRuns)
          /\ capLeft' = k
          /\ relisted' = [relisted EXCEPT !.listed = again]
    /\ capPc' = "iter"
    /\ plen' = plen
    /\ UNCHANGED nonCapVars

\* A set that never finds a key.
processed_contains_never(known) == FALSE

\* processed.contains(&key)
processed_contains(known) == known

\* The recording that is listed again: skipped if its key is in the set,
\* else downloaded, analysed and its key inserted.
cap_relisted ==
    /\ capPc = "iter"
    /\ relisted.listed
    /\ IF processed_contains(relisted.known)
         THEN /\ relisted' = [relisted EXCEPT !.listed = FALSE]
              /\ plen' = plen
         ELSE /\ relisted' = [listed |-> FALSE, known |-> TRUE,
                              runs |-> relisted.runs + 1]
              /\ plen' = plen + 1
    /\ UNCHANGED <<capPc, capLeft>>
    /\ UNCHANGED nonCapVars

\* processed.insert(key) for a key that processed.contains(&key) did not find.
cap_insert ==
    /\ capPc = "iter"
    /\ capLeft > 0
    /\ plen' = plen + 1
    /\ capLeft' = capLeft - 1
    /\ capPc' = capPc
    /\ relisted' = relisted
    /\ UNCHANGED nonCapVars

\* if processed.len() > 10_000 { processed.clear(); } and the sleep.
cap_end ==
    /\ capPc = "iter"
    /\ capLeft = 0
    /\ ~relisted.listed
    /\ plen' = IF processed_overflow(plen) THEN 0 ELSE plen
    /\ relisted' = IF processed_overflow(plen)
                     THEN [relisted EXCEPT !.known = FALSE] ELSE relisted
    /\ capPc' = "top"
    /\ capLeft' = capLeft
    /\ UNCHANGED nonCapVars

CapNext ==
    \/ cap_poll
    \/ cap_insert
    \/ cap_relisted
    \/ cap_end

\* ------------------------------------------------------------------------
\* The privacy filter (analysis.rs 99-104, 176-207)
\* ------------------------------------------------------------------------

\* The most chunks of one recording.
MaxChunks == 3

\* The number of labels of the model: the length of a chunk's prediction list.
ChunkLen == 16

FnParked ==
    /\ fnPc = "off"
    /\ fnIn = <<>>
    /\ fnCfg = <<>>
    /\ fnOut = <<>>

RegParked ==
    /\ mdns = {}
    /\ reg = <<>>

ChParked ==
    /\ txPc = "off"
    /\ rxPc = "off"
    /\ queue = <<>>
    /\ nextBatch = 0
    /\ sentOk = <<>>
    /\ received = <<>>

Max(a, b) == IF a > b THEN a ELSE b

\* iter().take(n)
Take(q, n) == SubSeq(q, 1, Min(n, Len(q)))

\* The labels of the model that contain "Human".
HumanLabels == {"Human_Human", "Human vocal_Human vocal"}

\* name.contains("Human")
contains_Human(name) == name \in HumanLabels

\* vec![("Human_Human".to_string(), 0.0)]
SyntheticHuman == <<<<"Human_Human", 0>>>>

\* config.privacy_threshold in 1/32 of a percent: every such value and
\* 6000.0 * privacy_threshold are exact in an f64, and the quotient by 100.0
\* is an integer or at least 1/32 away from one, so that the fixed point
\* below is the float computation.  The filter is run with 0 % and 0.25 %.
PrivacyThresholds == {0, 8}

\* The cutoff with the quotient rounded to the nearest integer.
human_cutoff_rounded(privacy_threshold) ==
    (Max((6000 * privacy_threshold) \div 100, 10 * 32) + 16) \div 32

\* (6000.0 * config.privacy_threshold / 100.0).max(10.0) as usize: the
\* quotient and the floor 10.0 in 1/32, and the cast, which truncates.
human_cutoff(privacy_threshold) ==
    Max((6000 * privacy_threshold) \div 100, 10 * 32) \div 32

\* human_mask: the chunks with a "Human" label among the first human_cutoff.
human_mask(predictions, privacy_threshold) ==
    [i \in 1..Len(predictions) |->
        \E j \in 1..Len(Take(predictions[i], human_cutoff(privacy_threshold))) :
            contains_Human(predictions[i][j][1])]

\* A mask that looks at the preceding chunk only.
neighbour_mask_before(mask) ==
    [i \in 1..Len(mask) |-> i > 1 /\ mask[i - 1]]

\* neighbour_mask: a chunk next to a human chunk.
neighbour_mask(mask) ==
    [i \in 1..Len(mask) |->
        \/ i > 1 /\ mask[i - 1]
        \/ i + 1 <= Len(mask) /\ mask[i + 1]]

filter_humans(predictions, privacy_threshold) ==
    LET hm == human_mask(predictions, privacy_threshold)
        nm == neighbour_mask(hm)
    IN  [i \in 1..Len(predictions) |->
            IF hm[i] \/ nm[i] THEN SyntheticHuman
            ELSE Take(predictions[i], 10)]

\* A prediction list as predict returns it, highest score first, with a
\* "Human" label at position k (none when k = 0). Scores are in 1/100000.
Chunk(k) ==
    [j \in 1..ChunkLen |->
        <<IF j = k THEN "Human vocal_Human vocal"
          ELSE "Turdus merula_Eurasian Blackbird", 90000 - 1000 * j>>]

\* Where the "Human" label of a chunk can be: nowhere, first, at and just
\* after the cutoffs 10 and 15.
HumanPositions == {0, 1, 10, 11, 15, 16}

ChunkChoices == {<<>>} \cup {Chunk(k) : k \in HumanPositions}

RECURSIVE SeqsUpTo(_, _)
\* The sequences over S of length at most n.
SeqsUpTo(S, n) ==
    IF n = 0 THEN {<<>>}
    ELSE LET shorter == SeqsUpTo(S, n - 1)
         IN  shorter \cup {Append(q, x) : q \in shorter, x \in S}

\* raw_detections of one recording and the configuration of the call.
FhInit ==
    /\ fnPc = "in"
    /\ fnIn \in SeqsUpTo(ChunkChoices, MaxChunks)
    /\ fnCfg \in [domain : {"birds", "bats"}, privacy_threshold : PrivacyThresholds]
    /\ fnOut = <<>>

\* let filtered = if domain == "birds" { filter_humans(..) } else { raw }
filter_step ==
    /\ fnPc = "in"
    /\ fnOut' = IF fnCfg.domain = "birds"
                  THEN filter_humans(fnIn, fnCfg.privacy_threshold)
                  ELSE fnIn
    /\ fnPc' = "out"
    /\ UNCHANGED <<fnIn, fnCfg>>
    /\ UNCHANGED nonFnVars

FhNext == filter_step

\* ------------------------------------------------------------------------
\* Confidence threshold and species filters (analysis.rs 115-163)
\* ------------------------------------------------------------------------

\* The most predictions of the chunk that is filtered.
MaxEntries == 2

\* config.confidence, in 1/100000.
MinConfidence == 70000

\* Scores around the threshold, in 1/100000: 0.69994 and 0.69995 are below
\* it, and 0.69995 is 0.7000 once rounded to four decimals.
Scores == {69994, 69995, 70000, 70004}

SciNames == {"Turdus merula", "Parus major"}

\* A comparison made after rounding for storage.
below_threshold_rounded(confidence, min) ==
    ((confidence + 5) \div 10) * 10 < min

\* if *confidence < config.confidence { continue; }
below_threshold(confidence, min) == confidence < min

\* (confidence * 10000.0).round() / 10000.0, on scores in 1/100000.
round4(confidence) == ((confidence + 5) \div 10) * 10

\* Detection::new: the fields the filters decide.
Detection_new(sci_name, confidence) ==
    [scientific_name |-> sci_name, confidence |-> round4(confidence)]

\* let predicted_species_list: Vec<String> = vec![];
\* (the occurrence gate, cfg.gate, is not asked)
predicted_species_list(cfg) == {}

RECURSIVE confident_detections(_, _)
\* for (sci_name, confidence) in entries { .. confident_detections.push(det) }
confident_detections(entries, cfg) ==
    IF entries = <<>> THEN <<>>
    ELSE LET sci_name   == Head(entries)[1]
             confidence == Head(entries)[2]
             rest       == confident_detections(Tail(entries), cfg)
         IN  IF below_threshold(confidence, cfg.confidence) THEN rest
             ELSE IF cfg.include # {} /\ sci_name \notin cfg.include
             THEN rest
             ELSE IF cfg.exclude # {} /\ sci_name \in cfg.exclude
             THEN rest
             ELSE IF /\ predicted_species_list(cfg) # {}
                     /\ sci_name \notin predicted_species_list(cfg)
                     /\ sci_name \notin cfg.whitelist
             THEN rest
             ELSE <<Detection_new(sci_name, confidence)>> \o rest

\* Highest score first, as predict returns the list.
SortedDesc(q) == \A i \in 1..(Len(q) - 1) : q[i][2] >= q[i + 1][2]

\* The entries of one chunk, the configuration and the species lists of the
\* call; gate is what get_species_list returns for the file's place and week.
AnInit ==
    /\ fnPc = "in"
    /\ fnIn \in {q \in SeqsUpTo(SciNames \X Scores, MaxEntries) :
                    SortedDesc(q)}
    /\ fnCfg \in [confidence : {MinConfidence},
                   include : {{}, {"Turdus merula"}},
                   exclude : {{}, {"Parus major"}},
                   whitelist : {{}, {"Parus major"}},
                   gate : {{}, {"Turdus merula"}}]
    /\ fnOut = <<>>

\* apply confidence threshold + species filters
threshold_step ==
    /\ fnPc = "in"
    /\ fnOut' = confident_detections(fnIn, fnCfg)
    /\ fnPc' = "out"
    /\ UNCHANGED <<fnIn, fnCfg>>
    /\ UNCHANGED nonFnVars

AnNext == threshold_step

\* ------------------------------------------------------------------------
\* Time labels and wall-clock time of detections (analysis.rs 106-113,
\* 153-162; detection.rs 39-55).  Times are in milliseconds.
\* ------------------------------------------------------------------------

\* model.chunk_duration()
ChunkDurations == {3000, 5000}

\* config.overlap; split_signal returns only when its step is positive, so
\* chunks are labelled only with an overlap below the chunk duration.
Overlaps == {0, 500, 1000}

\* The local time zone skips the local times from GapStart up to GapEnd (the
\* clocks go forward) and repeats those from FoldStart up to FoldEnd (the
\* clocks go back); times of day in milliseconds.
GapStart == 7200000

GapEnd == 10800000

FoldStart == 20000000

FoldEnd == 23600000

\* Local::now()
Now == 50000000

\* file.file_date: before, just before, inside the skipped hour, inside the
\* repeated hour.
FileDates == {0, 7197000, 7200000, 20000000}

\* Local.from_local_datetime(&dt): None, Ambiguous or Single.
from_local_datetime(zone, dt) ==
    IF zone = "dst" /\ dt >= GapStart /\ dt < GapEnd THEN "None"
    ELSE IF zone = "dst" /\ dt >= FoldStart /\ dt < FoldEnd THEN "Ambiguous"
    ELSE "Single"

\* .single().unwrap_or_else(|| Local::now())
local_dt(zone, dt, now) ==
    IF from_local_datetime(zone, dt) = "Single" THEN dt ELSE now

\* Detection::new: the fields that carry time.
Detection_time(file_date, start, stop, zone, now) ==
    [start |-> start,
     stop |-> stop,
     datetime |-> local_dt(zone, file_date + start, now)]

RECURSIVE labeled(_, _, _, _)
\* for preds in &filtered { labeled.push((pred_start, pred_end, ..)); .. }
labeled(n, pred_start, chunk_duration, overlap) ==
    IF n = 0 THEN <<>>
    ELSE LET pred_end == pred_start + chunk_duration
         IN  <<<<pred_start, pred_end>>>> \o
             labeled(n - 1, pred_end - overlap, chunk_duration, overlap)

\* One detection for each chunk, in order.
time_detections(in, cfg) ==
    LET lab == labeled(in.chunks, 0, cfg.chunk_duration, cfg.overlap)
    IN  [i \in 1..Len(lab) |->
            Detection_time(in.file_date, lab[i][1], lab[i][2],
                           cfg.zone, in.now)]

\* A recording of one to MaxChunks chunks, each with a confident prediction.
TlInit ==
    /\ fnPc = "in"
    /\ fnIn \in [file_date : FileDates, chunks : 1..MaxChunks, now : {Now}]
    /\ fnCfg \in [chunk_duration : ChunkDurations,
                   overlap : Overlaps,
                   zone : {"utc", "dst"}]
    /\ fnOut = <<>>

\* assemble time-labeled detections, then Detection::new for each
timelabel_step ==
    /\ fnPc = "in"
    /\ fnOut' = time_detections(fnIn, fnCfg)
    /\ fnPc' = "out"
    /\ UNCHANGED <<fnIn, fnCfg>>
    /\ UNCHANGED nonFnVars

TlNext == timelabel_step

\* ------------------------------------------------------------------------
\* Chunking (audio.rs 106-139).  seconds, overlap and min_len are in half
\* seconds; `as usize` truncates and turns a negative product to 0.
\* ------------------------------------------------------------------------

\* The most samples of a signal.
MaxSamples == 6

\* The chunk pushes the allocator grants before the process is aborted for
\* lack of memory: more than a returning call makes.
MemChunks == MaxSamples + 2

Rates == {1, 2}

HalfSeconds == {2, 4}

HalfOverlaps == {0, 1, 2}

HalfMins == {1, 3}

\* (seconds * rate as f64) as usize
chunk_samples(cfg) == (cfg.seconds * cfg.rate) \div 2

\* ((seconds - overlap) * rate as f64) as usize
step(cfg) ==
    IF cfg.seconds > cfg.overlap
    THEN ((cfg.seconds - cfg.overlap) * cfg.rate) \div 2
    ELSE 0

\* (min_len * rate as f64) as usize
min_samples(cfg) == (cfg.min_len * cfg.rate) \div 2

\* &sig[i..end], end = (i + chunk_samples).min(sig.len())
split(sig, i, cfg) ==
    SubSeq(sig, i + 1, Min(i + chunk_samples(cfg), Len(sig)))

\* padded[..split.len()].copy_from_slice(split), or split.to_vec()
padded(s, cfg) ==
    IF Len(s) < chunk_samples(cfg)
    THEN s \o [k \in 1..(chunk_samples(cfg) - Len(s)) |-> 0]
    ELSE s

\* A signal of non-zero samples, and the arguments of the call.
SsInit ==
    /\ fnPc = "loop"
    /\ fnIn \in {[k \in 1..n |-> 1] : n \in 0..MaxSamples}
    /\ fnCfg \in [rate : Rates, seconds : HalfSeconds,
                   overlap : HalfOverlaps, min_len : HalfMins]
    /\ fnOut = [i |-> 0, chunks |-> <<>>]

\* One turn of the loop that pushes a chunk.
split_push ==
    /\ fnPc = "loop"
    /\ fnOut.i < Len(fnIn)
    /\ Len(split(fnIn, fnOut.i, fnCfg)) >= min_samples(fnCfg)
    /\ Len(fnOut.chunks) < MemChunks
    /\ fnOut' = [i |-> fnOut.i + step(fnCfg),
                 chunks |-> Append(fnOut.chunks,
                                   padded(split(fnIn, fnOut.i, fnCfg),
                                          fnCfg))]
    /\ UNCHANGED <<fnPc, fnIn, fnCfg>>
    /\ UNCHANGED nonFnVars

\* The loop ends (i reached the end, or the rest is too short): chunks is
\* returned.
split_return ==
    /\ fnPc = "loop"
    /\ \/ fnOut.i >= Len(fnIn)
       \/ Len(split(fnIn, fnOut.i, fnCfg)) < min_samples(fnCfg)
    /\ fnPc' = "out"
    /\ UNCHANGED <<fnIn, fnCfg, fnOut>>
    /\ UNCHANGED nonFnVars

\* A push that cannot allocate aborts the process.
split_abort ==
    /\ fnPc = "loop"
    /\ fnOut.i < Len(fnIn)
    /\ Len(split(fnIn, fnOut.i, fnCfg)) >= min_samples(fnCfg)
    /\ Len(fnOut.chunks) >= MemChunks
    /\ fnPc' = "abort"
    /\ UNCHANGED <<fnIn, fnCfg, fnOut>>
    /\ UNCHANGED nonFnVars

SsNext ==
    \/ split_push
    \/ split_return
    \/ split_abort

\* ------------------------------------------------------------------------
\* Validation of a model file before it is loaded (model.rs 69-164).  A
\* file is its existence, its length and its first eight bytes; stat, open
\* and read succeed.
\* ------------------------------------------------------------------------

MIN_TFLITE_SIZE == 1024

\* b"TFL3"
TFLITE_SCHEMA_ID == <<84, 70, 76, 51>>

\* b"PK\x03\x04"
ZipMagic == <<80, 75, 3, 4>>

\* Bytes 0..4 of a file: the zip magic, "<!DO", "<htm", "<HTM", "<?" then
\* zeros (root offset 16188), "PK" then zeros (19280), and the root offsets
\* 28, 1023, 1024 and 1025.
Heads ==
    {ZipMagic, <<60, 33, 68, 79>>, <<60, 104, 116, 109>>, <<60, 72, 84, 77>>,
     <<60, 63, 0, 0>>, <<80, 75, 0, 0>>, <<28, 0, 0, 0>>, <<255, 3, 0, 0>>,
     <<0, 4, 0, 0>>, <<1, 4, 0, 0>>}

\* Bytes 4..8 of a file: "TFL3", "TFL2", zeros.
Idents == {TFLITE_SCHEMA_ID, <<84, 70, 76, 50>>, <<0, 0, 0, 0>>}

\* meta.len()
FileLens == {0, 1, 1023, 1024, 1025, 16188, 16189, 19281}

\* header.starts_with(prefix)
starts_with(header, prefix) ==
    /\ Len(header) >= Len(prefix)
    /\ SubSeq(header, 1, Len(prefix)) = prefix

\* u32::from_le_bytes([header[0], header[1], header[2], header[3]])
u32_from_le_bytes(b) ==
    b[1] + 256 * b[2] + 65536 * b[3] + 16777216 * b[4]

\* An offset that may not equal the length of the file.
root_offset_outside_strict(root_offset, len) == root_offset > len

\* if root_offset as u64 >= meta.len()
root_offset_outside(root_offset, len) == root_offset >= len

\* validate_tflite_file: "Ok", or the check that failed.
validate_tflite_file(file) ==
    IF ~file.exists THEN "not found"
    ELSE IF file.len = 0 THEN "empty"
    ELSE IF file.len < MIN_TFLITE_SIZE THEN "suspiciously small"
    ELSE IF Len(file.header) < 8 THEN "too short"
    ELSE IF starts_with(file.header, ZipMagic) THEN "zip archive"
    ELSE IF \/ starts_with(file.header, <<60, 33>>)
            \/ starts_with(file.header, <<60, 104>>)
            \/ starts_with(file.header, <<60, 72>>)
    THEN "HTML page"
    ELSE IF SubSeq(file.header, 5, 8) # TFLITE_SCHEMA_ID
    THEN "schema identifier"
    ELSE IF root_offset_outside(
                u32_from_le_bytes(SubSeq(file.header, 1, 4)), file.len)
    THEN "root table offset"
    ELSE "Ok"

\* A path that names no file, or a file of some length whose header is the
\* first bytes of it.
VfInit ==
    /\ fnPc = "in"
    /\ \E e \in BOOLEAN, n \in FileLens, h \in Heads, id \in Idents :
          fnIn = [exists |-> e,
                  len |-> IF e THEN n ELSE 0,
                  header |-> IF e THEN SubSeq(h \o id, 1, Min(8, n))
                             ELSE <<>>]
    /\ fnCfg = <<>>
    /\ fnOut = <<>>

validate_step ==
    /\ fnPc = "in"
    /\ fnOut' = validate_tflite_file(fnIn)
    /\ fnPc' = "out"
    /\ UNCHANGED <<fnIn, fnCfg>>
    /\ UNCHANGED nonFnVars

VfNext == validate_step

\* ------------------------------------------------------------------------
\* Claiming a name on the local network (discovery.rs 178-245, 263-286).
\* An instance name is a prefix and the characters after "<prefix>-".
\* ------------------------------------------------------------------------

\* The nodes of the role that start and stop.
Nodes == {1, 2}

\* role.prefix()
RolePrefix == "capture"

DigitChars == <<"0", "1", "2", "3", "4", "5", "6", "7", "8", "9">>

IsDigit(c) == \E d \in 1..10 : DigitChars[d] = c

DigitValue(c) == (CHOOSE d \in 1..10 : DigitChars[d] = c) - 1

RECURSIVE decimal(_)
\* The decimal digits of n, without padding.
decimal(n) ==
    IF n < 10 THEN <<DigitChars[n + 1]>>
    ELSE Append(decimal(n \div 10), DigitChars[(n % 10) + 1])

\* format!("{:02}", n)
format_02(n) ==
    IF Len(decimal(n)) < 2 THEN <<"0">> \o decimal(n) ELSE decimal(n)

RECURSIVE digits_value(_)
digits_value(s) ==
    IF s = <<>> THEN 0
    ELSE 10 * digits_value(SubSeq(s, 1, Len(s) - 1))
           + DigitValue(s[Len(s)])

\* suffix.parse::<u32>().ok(): digits, after an optional "+"; -1 is None.
parse_u32(s) ==
    LET body == IF s # <<>> /\ s[1] = "+" THEN Tail(s) ELSE s
    IN  IF body # <<>> /\ \A k \in 1..Len(body) : IsDigit(body[k])
        THEN digits_value(body)
        ELSE -1

\* parse_instance_number(fullname, prefix); -1 is None.
parse_instance_number(fullname, prefix) ==
    IF fullname.prefix = prefix THEN parse_u32(fullname.suffix) ELSE -1

\* The number after the length of the set.
next_available_len(used) == Cardinality(used) + 1

\* next_available: n = 1; while used.contains(&n) { n += 1 }
next_available(used) ==
    CHOOSE n \in 1..(Cardinality(used) + 1) :
        /\ n \notin used
        /\ \A m \in 1..(n - 1) : m \in used

\* format!("{}-{:02}", role.prefix(), our_number)
instance_name(prefix, our_number) ==
    [prefix |-> prefix, suffix |-> format_02(our_number)]

NoName == [prefix |-> "", suffix |-> <<>>]

\* Instances that were up before the nodes start: 0, 8 or 98 of them, named
\* as register names them and known to every scan from its first answer.
Bases == {0, 8, 98}

Stable(base) ==
    {[name |-> instance_name(RolePrefix, k), owner |-> 0] : k \in 1..base}

\* Instances of the same service type named by other means: "capture-+3"
\* and "capture-x", or "web-01" and "capture-00".
ForeignSets ==
    {{},
     {[name |-> [prefix |-> RolePrefix, suffix |-> <<"+", "3">>],
       owner |-> -1],
      [name |-> [prefix |-> RolePrefix, suffix |-> <<"x">>], owner |-> -1]},
     {[name |-> [prefix |-> "web", suffix |-> <<"0", "1">>], owner |-> -1],
      [name |-> [prefix |-> RolePrefix, suffix |-> <<"0", "0">>],
       owner |-> -1]}}

RegInit ==
    /\ \E b \in Bases, f \in ForeignSets : mdns = Stable(b) \cup f
    /\ reg = [n \in Nodes |-> [pc |-> "idle", existing |-> {},
                               name |-> NoName]]

\* The numbers parsed from a set of resolved instances.
numbers_of(instances) ==
    {parse_instance_number(i.name, RolePrefix) : i \in instances} \ {-1}

\* daemon.browse(role.service_type()); the instances that were up before the
\* nodes started are resolved at once.
browse(n) ==
    /\ reg[n].pc = "idle"
    /\ reg' = [reg EXCEPT ![n].pc = "scan",
                          ![n].existing =
                              numbers_of({i \in mdns : i.owner = 0})]
    /\ UNCHANGED mdns
    /\ UNCHANGED nonRegVars

\* Ok(ServiceEvent::ServiceResolved(info)) => existing.insert(n)
resolved(n) ==
    /\ reg[n].pc = "scan"
    /\ \E i \in mdns :
          /\ i.owner # 0
          /\ reg' = [reg EXCEPT ![n].existing =
                                    @ \cup numbers_of({i})]
    /\ UNCHANGED mdns
    /\ UNCHANGED nonRegVars

\* The scan is over: pick the next number, register the instance.
announce(n) ==
    /\ reg[n].pc = "scan"
    /\ LET our_number == next_available(reg[n].existing)
           name       == instance_name(RolePrefix, our_number)
       IN  /\ reg' = [reg EXCEPT ![n].pc = "up", ![n].name = name]
           /\ mdns' = mdns \cup {[name |-> name, owner |-> n]}
    /\ UNCHANGED nonRegVars

\* DiscoveryHandle::shutdown: the instance is unregistered.
unregister_node(n) ==
    /\ reg[n].pc = "up"
    /\ mdns' = mdns \ {[name |-> reg[n].name, owner |-> n]}
    /\ reg' = [reg EXCEPT ![n] = [pc |-> "idle", existing |-> {},
                                  name |-> NoName]]
    /\ UNCHANGED nonRegVars

RegNext ==
    \E n \in Nodes :
        \/ browse(n)
        \/ resolved(n)
        \/ announce(n)
        \/ unregister_node(n)

\* ------------------------------------------------------------------------
\* Variant overrides of a manifest (manifest.rs 174-204).  An Option is a
\* sequence: <<>> is None, <<x>> is Some(x).
\* ------------------------------------------------------------------------

\* [download.variants.fp32]: every choice of the three overrides.
Fp32Infos ==
    [zenodo_file : {"BirdNET_v2.4_tflite.zip"},
     tflite_file : {<<>>, <<"audio-model.tflite">>},
     labels_file : {<<>>, <<"labels_fp32.txt">>},
     metadata_tflite_file : {<<>>, <<"meta-model-fp32.tflite">>}]

\* [download.variants.int8]
Int8Info ==
    [zenodo_file |-> "BirdNET_v2.4_tflite_int8.zip",
     tflite_file |-> <<"audio-model-int8.tflite">>,
     labels_file |-> <<>>,
     metadata_tflite_file |-> <<"meta-model-int8.tflite">>]

\* manifest.download: None, or the variants declared.
DownloadSections ==
    {<<>>}
      \cup {<<[fp32 |-> v]>> : v \in Fp32Infos}
      \cup {<<[fp32 |-> v, int8 |-> Int8Info]>> : v \in Fp32Infos}

\* The manifests of a model directory.
Manifests ==
    [tflite_file : {"audio-model-fp16.tflite"},
     labels_file : {"en_us.txt"},
     metadata_model : {<<>>, <<[enabled |-> TRUE,
                                tflite_file |-> "meta-model.tflite"]>>},
     download : DownloadSections]

VariantNames == {"fp32", "int8", "fp64"}

\* An override that adds to the field.
override_append(old, new) == old \o new

\* self.manifest.model.tflite_file = tf.clone()
override(old, new) == new

\* apply_variant: the result and the manifest it leaves.
apply_variant(m, variant_name) ==
    IF m.download = <<>> THEN [result |-> "Ok", manifest |-> m]
    ELSE IF variant_name \notin DOMAIN m.download[1]
    THEN [result |-> "Err", manifest |-> m]
    ELSE LET variant == m.download[1][variant_name]
             m1 == IF variant.tflite_file # <<>>
                   THEN [m EXCEPT !.tflite_file =
                                      override(@, variant.tflite_file[1])]
                   ELSE m
             m2 == IF variant.labels_file # <<>>
                   THEN [m1 EXCEPT !.labels_file =
                                       override(@, variant.labels_file[1])]
                   ELSE m1
             m3 == IF variant.metadata_tflite_file # <<>>
                      /\ m2.metadata_model # <<>>
                   THEN [m2 EXCEPT !.metadata_model[1].tflite_file =
                            override(@, variant.metadata_tflite_file[1])]
                   ELSE m2
         IN  [result |-> "Ok", manifest |-> m3]

\* A manifest as it was read, and the variant that is selected.
AvInit ==
    /\ fnPc = "in"
    /\ fnIn \in Manifests
    /\ fnCfg \in VariantNames
    /\ fnOut = <<>>

\* apply_variant is called on the manifest, then again on what it left.
apply_step ==
    /\ fnPc \in {"in", "once"}
    /\ fnOut' = Append(fnOut,
                       apply_variant(IF fnOut = <<>> THEN fnIn
                                     ELSE fnOut[Len(fnOut)].manifest,
                                     fnCfg))
    /\ fnPc' = IF fnPc = "in" THEN "once" ELSE "twice"
    /\ UNCHANGED <<fnIn, fnCfg>>
    /\ UNCHANGED nonFnVars

AvNext == apply_step

\* ------------------------------------------------------------------------
\* The result channel under load (main.rs 148-157, analysis.rs 45-51,
\* reporting.rs 21-42): the poll thread sends one batch after another, the
\* reporting thread takes them one at a time.
\* ------------------------------------------------------------------------

\* The batches the poll thread builds.
MaxBatches == 18

\* The threads are started: main.rs 149-168.
ChInit ==
    /\ txPc = "idle"
    /\ rxPc = "recv"
    /\ queue = <<>>
    /\ nextBatch = 1
    /\ sentOk = <<>>
    /\ received = <<>>

\* report_tx.send(payload): the payload is queued, or the thread blocks on a
\* full channel, or send returns Err because the receiver is gone.
send_batch ==
    /\ txPc = "idle"
    /\ nextBatch <= MaxBatches
    /\ IF rxPc = "dead"
         THEN /\ nextBatch' = nextBatch + 1
              /\ UNCHANGED <<txPc, queue, sentOk>>
         ELSE IF channel_full(queue)
         THEN /\ txPc' = "blocked"
              /\ UNCHANGED <<queue, nextBatch, sentOk>>
         ELSE /\ queue' = channel_send(queue, nextBatch)
              /\ sentOk' = Append(sentOk, nextBatch)
              /\ nextBatch' = nextBatch + 1
              /\ UNCHANGED txPc
    /\ UNCHANGED <<rxPc, received>>
    /\ UNCHANGED nonChVars

\* The blocked send returns: room was made, or the receiver is gone.
send_wakes ==
    /\ txPc = "blocked"
    /\ IF rxPc = "dead"
         THEN UNCHANGED <<queue, sentOk>>
         ELSE /\ ~channel_full(queue)
              /\ queue' = channel_send(queue, nextBatch)
              /\ sentOk' = Append(sentOk, nextBatch)
    /\ nextBatch' = nextBatch + 1
    /\ txPc' = "idle"
    /\ UNCHANGED <<rxPc, received>>
    /\ UNCHANGED nonChVars

\* while let Ok(payload) = rx.recv()
recv_batch ==
    /\ rxPc = "recv"
    /\ queue # <<>>
    /\ received' = Append(received, Head(queue))
    /\ queue' = Tail(queue)
    /\ rxPc' = "busy"
    /\ UNCHANGED <<txPc, nextBatch, sentOk>>
    /\ UNCHANGED nonChVars

\* The body of the loop of handle_queue is over.
batch_handled ==
    /\ rxPc = "busy"
    /\ rxPc' = "recv"
    /\ UNCHANGED <<txPc, queue, nextBatch, sentOk, received>>
    /\ UNCHANGED nonChVars

\* A panic while a batch is handled ends the reporting thread: the receiver
\* is dropped and with it what the channel holds.
reporter_panics ==
    /\ rxPc = "busy"
    /\ rxPc' = "dead"
    /\ queue' = <<>>
    /\ UNCHANGED <<txPc, nextBatch, sentOk, received>>
    /\ UNCHANGED nonChVars

ChNext ==
    \/ send_batch
    \/ send_wakes
    \/ recv_batch
    \/ batch_handled
    \/ reporter_panics

\* ------------------------------------------------------------------------
\* Inserting the rows of a batch (db.rs 65-88, reporting.rs 49-83).  fnIn is
\* the number of detections of the batch; fnOut follows the loop.
\* ------------------------------------------------------------------------

\* The most detections of a batch.
MaxRows == 3

\* for attempt in 0..3
DB_TRIES == 3

\* std::thread::sleep(Duration::from_secs(2))
DB_PAUSE == 2

\* An insert that gives up after its first try.
insert_gives_up_first(n) == n >= 1

\* The loop `for attempt in 0..3` is over.
insert_gives_up(n) == n >= DB_TRIES

\* A batch was received; write_json_file succeeded.
DbInit ==
    /\ fnPc = "extract"
    /\ fnIn \in 1..MaxRows
    /\ fnCfg = <<>>
    /\ fnOut = [row |-> 1, attempt |-> 0, clock |-> 0, inserted |-> {},
                failed |-> {}, tries |-> [r \in 1..MaxRows |-> 0]]

\* extract_detection(..)?, the spectrogram and the log line of one row; an
\* extraction error ends process_report.
row_begin ==
    /\ fnPc = "extract"
    /\ \E extracted \in BOOLEAN :
          fnPc' = IF extracted THEN "insert" ELSE "out"
    /\ UNCHANGED <<fnIn, fnCfg, fnOut>>
    /\ UNCHANGED nonFnVars

\* The row is done: the next one, or the end of the loop.
next_row(out) ==
    /\ fnOut' = [out EXCEPT !.row = @ + 1, !.attempt = 0]
    /\ fnPc' = IF out.row + 1 > fnIn THEN "out" ELSE "extract"

\* One turn of the loop of insert_detection: try_insert, and on an error the
\* warning and the sleep.
try_insert ==
    /\ fnPc = "insert"
    /\ ~insert_gives_up(fnOut.attempt)
    /\ \E ok \in BOOLEAN :
          LET tried == [fnOut EXCEPT !.tries[fnOut.row] = @ + 1]
          IN  IF ok
                THEN next_row([tried EXCEPT !.inserted = @ \cup {fnOut.row}])
                ELSE /\ fnOut' = [tried EXCEPT !.attempt = @ + 1,
                                               !.clock = @ + DB_PAUSE]
                     /\ UNCHANGED fnPc
    /\ UNCHANGED <<fnIn, fnCfg>>
    /\ UNCHANGED nonFnVars

\* bail!("Failed to insert detection after 3 attempts"), logged by
\* process_report as "DB insert failed"; the loop goes on.
insert_failed ==
    /\ fnPc = "insert"
    /\ insert_gives_up(fnOut.attempt)
    /\ next_row([fnOut EXCEPT !.failed = @ \cup {fnOut.row}])
    /\ UNCHANGED <<fnIn, fnCfg>>
    /\ UNCHANGED nonFnVars

DbNext ==
    \/ row_begin
    \/ try_insert
    \/ insert_failed

\* ------------------------------------------------------------------------
\* Resolving the capture URLs (client.rs 190-219, discovery.rs 68-79).
\* fnCfg is `discovery.is_some()`, fnIn the scan attempt, fnOut the result.
\* ------------------------------------------------------------------------

\* The addresses a peer can advertise: a LAN and a loopback IPv4 address,
\* a routable and a loopback IPv6 address.
Addrs ==
    {Addr(10, TRUE, FALSE), Addr(127, TRUE, TRUE),
     Addr(60, FALSE, FALSE), Addr(61, FALSE, TRUE)}

\* info.get_addresses(): up to two addresses in any order.
AddrLists ==
    {<<>>} \cup {<<a>> : a \in Addrs}
           \cup {l \in Addrs \X Addrs : l[1] # l[2]}

\* What one scan returns: up to two peers.
PeerLists ==
    LET P == {[addresses |-> l] : l \in AddrLists}
    IN  {<<>>} \cup {<<p>> : p \in P} \cup {<<p, q>> : p \in P, q \in P}

UrlInit ==
    /\ fnPc = "resolve"
    /\ fnCfg \in BOOLEAN
    /\ fnIn = 1
    /\ fnOut = <<>>

\* discovery is None: vec![config.capture_server_url.clone()]
resolve_without_discovery ==
    /\ fnPc = "resolve"
    /\ ~fnCfg
    /\ fnOut' = [urls |-> resolve_capture_urls(<<>>), peers |-> <<>>]
    /\ fnPc' = "done"
    /\ UNCHANGED <<fnIn, fnCfg>>
    /\ UNCHANGED nonFnVars

\* One turn of `for attempt in 1..=2`: a scan; its peers' URLs are returned
\* if it found a peer, and after the second empty scan the configured URL.
resolve_scan ==
    /\ fnPc = "resolve"
    /\ fnCfg
    /\ \E peers \in PeerLists :
          IF peers # <<>> \/ fnIn = 2
            THEN /\ fnOut' = [urls |-> resolve_capture_urls(peers),
                              peers |-> peers]
                 /\ fnPc' = "done"
                 /\ UNCHANGED fnIn
            ELSE /\ fnIn' = 2
                 /\ UNCHANGED <<fnPc, fnOut>>
    /\ UNCHANGED fnCfg
    /\ UNCHANGED nonFnVars

UrlNext ==
    \/ resolve_without_discovery
    \/ resolve_scan

\* ------------------------------------------------------------------------
\* The cutoff rank of the privacy filter (analysis.rs 177).  fnIn is
\* config.privacy_threshold in 1/32 of a percent, fnOut the cutoff.
\* ------------------------------------------------------------------------

\* The largest privacy threshold, in 1/32 of a percent.
MaxPrivacy == 100

\* PRIVACY_THRESHOLD is any number; a negative one is not refused.
HcInit ==
    /\ fnPc = "in"
    /\ fnIn \in -8..MaxPrivacy
    /\ fnCfg = <<>>
    /\ fnOut = 0

cutoff_step ==
    /\ fnPc = "in"
    /\ fnOut' = human_cutoff(fnIn)
    /\ fnPc' = "out"
    /\ UNCHANGED <<fnIn, fnCfg>>
    /\ UNCHANGED nonFnVars

HcNext == cutoff_step

\* ------------------------------------------------------------------------
\* The clip window of a detection (reporting.rs 97-128, audio.rs 142-167).
\* Times in half seconds; the recording has two frames a second and one
\* channel, so that a frame index is a time.
\* ------------------------------------------------------------------------

\* config.recording_length, in seconds
RECORDING_LENGTH == 15

\* config.extraction_length, in seconds
ExtractionLengths == {3, 4, 6}

\* model.chunk_duration(), in half seconds: models of 1 s, 3 s and 5 s
ChunkHalves == {2, 6, 10}

\* (config.extraction_length as f64 - 3.0).max(0.0) / 2.0
spacer(config) == Max(2 * config.extraction_length - 2 * 3, 0) \div 2

\* safe_start and safe_stop of extract_detection
safe_window(detection, config) ==
    [start |-> Max(detection.start - spacer(config), 0),
     stop |-> Min(detection.stop + spacer(config),
                  2 * config.recording_length)]

\* extract_clip: the frames from start_sample up to stop_sample, each cut
\* to the frames the file has.
extract_clip(frames, start_sec, stop_sec) ==
    [start |-> Min(start_sec, frames), stop |-> Min(stop_sec, frames)]

\* A detection of one chunk in a recording of the configured length or 3 s
\* shorter.
ExInit ==
    /\ fnPc = "in"
    /\ fnCfg \in [extraction_length : ExtractionLengths,
                   recording_length : {RECORDING_LENGTH}]
    /\ \E frames \in {2 * RECORDING_LENGTH, 2 * RECORDING_LENGTH - 6},
          chunk \in ChunkHalves :
          \E s \in 0..(frames - chunk) :
             fnIn = [frames |-> frames, start |-> s, stop |-> s + chunk]
    /\ fnOut = <<>>

extract_detection ==
    /\ fnPc = "in"
    /\ LET w == safe_window(fnIn, fnCfg)
       IN  fnOut' = extract_clip(fnIn.frames, w.start, w.stop)
    /\ fnPc' = "out"
    /\ UNCHANGED <<fnIn, fnCfg>>
    /\ UNCHANGED nonFnVars

ExNext == extract_detection

\* ------------------------------------------------------------------------
\* The local path of a recording (client.rs 47-48, 138-153, 238-258).
\* A path is the list of its components below the root; fnIn is the
\* `filename` of an entry of a peer's listing.
\* ------------------------------------------------------------------------

\* config.recs_dir.join("processing_tmp")
tmp_dir == <<"recs", "processing_tmp">>

\* The filenames of a listing: one to three components out of a file name,
\* a directory name and "..", relative or starting with "/".
Filenames ==
    LET C == {"a.wav", "sub", ".."}
    IN  [absolute : BOOLEAN,
         parts : {<<c>> : c \in C} \cup (C \X C) \cup (C \X C \X C)]

\* Path::join: an absolute argument replaces the base.
join(base, name) == IF name.absolute THEN name.parts ELSE base \o name.parts

RECURSIVE resolve(_, _)
\* The file the operating system opens for a path: ".." names the parent of
\* what precedes it, and the root is its own parent.
resolve(done, rest) ==
    IF rest = <<>> THEN done
    ELSE IF Head(rest) = ".."
           THEN resolve(IF done = <<>> THEN <<>>
                        ELSE SubSeq(done, 1, Len(done) - 1), Tail(rest))
           ELSE resolve(Append(done, Head(rest)), Tail(rest))

\* The path names a directory that exists: the root, recs or tmp_dir.
is_dir(path) == Len(path) <= Len(tmp_dir) /\ path = SubSeq(tmp_dir, 1, Len(path))

PathInit ==
    /\ fnPc = "download"
    /\ fnIn \in Filenames
    /\ fnCfg = <<>>
    /\ fnOut = [written |-> {}, removed |-> {}]

\* download_recording: create_dir_all(parent) and std::fs::write(out_path),
\* which fails on a directory; `continue` on an error.
download_recording ==
    /\ fnPc = "download"
    /\ LET out_path == resolve(<<>>, join(tmp_dir, fnIn))
       IN  \E got \in BOOLEAN :
             IF got /\ ~is_dir(out_path)
               THEN /\ fnOut' = [fnOut EXCEPT !.written = @ \cup {out_path}]
                    /\ fnPc' = "remove"
               ELSE /\ fnPc' = "next"
                    /\ UNCHANGED fnOut
    /\ UNCHANGED <<fnIn, fnCfg>>
    /\ UNCHANGED nonFnVars

\* std::fs::remove_file(&local_path).ok() after process_file
remove_local ==
    /\ fnPc = "remove"
    /\ fnOut' = [fnOut EXCEPT
                   !.removed = @ \cup {resolve(<<>>, join(tmp_dir, fnIn))}]
    /\ fnPc' = "next"
    /\ UNCHANGED <<fnIn, fnCfg>>
    /\ UNCHANGED nonFnVars

PathNext ==
    \/ download_recording
    \/ remove_local

Init == SrvInit /\ DlParked /\ CapParked /\ FnParked /\ RegParked /\ ChParked

Next ==
    \/ ensure_step
    \/ load_step
    \/ start_poll
    \/ ctrl_c
    \/ poll_top
    \/ poll_peer
    \/ poll_rec
    \/ process_file
    \/ poll_unlink
    \/ poll_delete
    \/ rep_recv
    \/ rep_detect
    \/ rep_cleanup
    \/ drop_tx
    \/ join_reporter
    \/ unregister

Spec == Init /\ [][Next]_vars

\* The steps of the thread that runs poll_and_process.
PollThread ==
    \/ poll_top
    \/ poll_peer
    \/ poll_rec
    \/ process_file
    \/ poll_unlink
    \/ poll_delete

\* The poll thread is scheduled: it sleeps for bounded intervals only and its
\* requests time out, so a step it can take is eventually taken.
FairSpec == Spec /\ WF_vars(PollThread)

\* The fetcher of one model, run and re-run by a server that is not started.
InitDl == DlInit /\ SrvInit /\ CapParked /\ FnParked /\ RegParked /\ ChParked

InitCap == CapInit /\ SrvInit /\ DlParked /\ FnParked /\ RegParked /\ ChParked

InitFh == FhInit /\ SrvInit /\ DlParked /\ CapParked /\ RegParked /\ ChParked

SpecFh == InitFh /\ [][FhNext]_vars

InitAn == AnInit /\ SrvInit /\ DlParked /\ CapParked /\ RegParked /\ ChParked

SpecAn == InitAn /\ [][AnNext]_vars

InitTl == TlInit /\ SrvInit /\ DlParked /\ CapParked /\ RegParked /\ ChParked

SpecTl == InitTl /\ [][TlNext]_vars

InitSs == SsInit /\ SrvInit /\ DlParked /\ CapParked /\ RegParked /\ ChParked

SpecSs == InitSs /\ [][SsNext]_vars

\* The call runs on: the thread that called split_signal is scheduled.
FairSpecSs == SpecSs /\ WF_vars(SsNext)

InitVf == VfInit /\ SrvInit /\ DlParked /\ CapParked /\ RegParked /\ ChParked

SpecVf == InitVf /\ [][VfNext]_vars

InitReg == RegInit /\ SrvInit /\ DlParked /\ CapParked /\ FnParked /\ ChParked

SpecReg == InitReg /\ [][RegNext]_vars

InitAv == AvInit /\ SrvInit /\ DlParked /\ CapParked /\ RegParked /\ ChParked

SpecAv == InitAv /\ [][AvNext]_vars

InitCh == ChInit /\ SrvInit /\ DlParked /\ CapParked /\ FnParked /\ RegParked

SpecCh == InitCh /\ [][ChNext]_vars

InitDb == DbInit /\ SrvInit /\ DlParked /\ CapParked /\ RegParked /\ ChParked

SpecDb == InitDb /\ [][DbNext]_vars

InitUrl == UrlInit /\ SrvInit /\ DlParked /\ CapParked /\ RegParked /\ ChParked

SpecUrl == InitUrl /\ [][UrlNext]_vars

InitHc == HcInit /\ SrvInit /\ DlParked /\ CapParked /\ RegParked /\ ChParked

SpecHc == InitHc /\ [][HcNext]_vars

InitEx == ExInit /\ SrvInit /\ DlParked /\ CapParked /\ RegParked /\ ChParked

SpecEx == InitEx /\ [][ExNext]_vars

InitPath == PathInit /\ SrvInit /\ DlParked /\ CapParked /\ RegParked /\ ChParked

SpecPath == InitPath /\ [][PathNext]_vars

SpecCap == InitCap /\ [][CapNext]_vars

SpecDl == InitDl /\ [][DlNext]_vars

\* A request ends within the timeout of the HTTP client and a sleep within
\* its duration, so an attempt that has begun is eventually over.
FairSpecDl == SpecDl /\ WF_vars(download_attempt)

\* ------------------------------------------------------------------------
\* Properties of the artifact fetcher (checked under SpecDl)
\* ------------------------------------------------------------------------

\* C1: when .part held a prefix of the archive (possibly empty) as the download
\* began, then whenever download_with_resume returns success, after any mix of
\* 206, 200, 416 answers and interrupted streams, .part holds exactly the bytes
\* a single uninterrupted download writes: the archive.
C1_ResumeByteIdentical ==
    (dlPc = "dl_ok" /\ prefixRun) => (part.exists /\ part.data = Archive)

\* C1 witness: success on the third attempt or later, after resuming.
C1_Witness ==
    /\ dlPc = "dl_ok"
    /\ prefixRun
    /\ attempt >= 3
    /\ part.data = Archive

\* C2: with the model file absent, every HTTP request of ensure_model_files is
\* issued at a wall-clock second that is not before the earliest-retry second
\* recorded in the marker file, in a freshly started process too.
C2_NoRequestBeforeRetry ==
    [][nreq' = nreq + 1 => clock >= marker_resume_at(marker)]_vars

\* C2 witness: a restarted process found a marker, slept, and issued its first
\* request exactly at the recorded second.
C2_Witness ==
    /\ invocations >= 2
    /\ marker.exists
    /\ nreq = 1
    /\ dlPc = "dl_ok"
    /\ clock = marker_resume_at(marker)
    /\ clock > 1000

\* C3: every marker written after a failure holds backoff 5 s when no marker
\* existed, else twice the previous backoff capped at 600 s; its earliest-retry
\* is the failure time plus that backoff and is not before the previous
\* marker's earliest-retry.
C3_BackoffLadder ==
    [][(marker'.exists /\ marker' # marker) =>
          /\ marker'.data[2] =
               (IF ~marker.exists THEN 5
                ELSE IF 2 * marker.data[2] > 600 THEN 600
                ELSE 2 * marker.data[2])
          /\ marker'.data[2] <= 600
          /\ marker'.data[1] = clock' + marker'.data[2]
          /\ (marker.exists => marker'.data[1] >= marker.data[1])]_vars

\* C3 witness: three consecutive failed runs starting without a marker leave
\* backoff 20 s; a run starting from backoff 320 s reached the cap.
C3_Witness ==
    /\ dlPc = "ret_err"
    /\ invocations = 3
    /\ marker.exists
    /\ marker.data[2] = 20
    /\ marker.data[1] = clock + 20

\* The digest of the bytes in .part differs from the declared one.
DigestMismatch ==
    \/ md5 = "wrong"
    \/ md5 = "good" /\ part.data # Archive

\* C16: when the MD5 of the completed download differs from the declared
\* digest, .part is deleted, nothing is extracted, a backoff marker is written
\* and ensure_model_files returns an error; with no digest declared the
\* comparison is skipped and extraction proceeds.
C16_Md5Mismatch ==
    /\ [][/\ (dlPc = "dl_ok" /\ dlPc' # "dl_ok" /\ DigestMismatch) =>
               /\ part' = NoFile
               /\ tflite' = tflite
               /\ dlPc' = "de_err"
               /\ lastErr' = "md5"
          /\ (dlPc = "de_err" /\ dlPc' # "de_err") =>
               /\ dlPc' = "ret_err"
               /\ marker'.exists
               /\ marker_resume_at(marker') > clock'
               /\ lastErr' = lastErr
          /\ (dlPc = "dl_ok" /\ dlPc' # "dl_ok" /\ md5 = "none") =>
               /\ lastErr' # "md5"
               /\ zip_opens(part.data) =>
                    (dlPc' = "de_ok" /\ tflite' = zipHasModel)]_vars
    /\ []((dlPc = "ret_err" /\ lastErr = "md5") =>
            (~part.exists /\ ~tflite /\ marker.exists))

\* C16 witness: a download that completed with bytes other than the archive
\* failed its digest, and ensure_model_files returned the error.
C16_Witness ==
    /\ dlPc = "ret_err"
    /\ lastErr = "md5"
    /\ md5 = "good"
    /\ ~part.exists
    /\ marker.exists

\* C17: when the expected model file already exists, ensure_model_files goes
\* straight to a successful return: no HTTP request, no wait on the backoff
\* marker, .part and the model file untouched, the marker removed.
C17_PresentFileNoOp ==
    [][(invocations' = invocations + 1 /\ tflite) =>
          /\ dlPc' = "ret_ok"
          /\ nreq' = 0
          /\ clock' - clock \in RestartDelays
          /\ part' = part
          /\ tflite' = tflite
          /\ ~marker'.exists]_vars

\* C17 witness: a first run that found the model file returned success with no
\* request issued; no marker is left and the .part of an earlier run is kept.
C17_Witness ==
    /\ dlPc = "ret_ok"
    /\ invocations = 1
    /\ tflite
    /\ nreq = 0
    /\ ~marker.exists
    /\ part.exists

\* C27: when an invocation of ensure_model_files that issued a request
\* returns an error (the network failed on every attempt, the digest differs,
\* the archive does not open, or the expected file is missing after the
\* extraction), the backoff marker exists; when it returns success, neither
\* the backoff marker nor .part exists.
C27_MarkerAfterFetch ==
    /\ (dlPc = "ret_err" /\ nreq >= 1) =>
          /\ lastErr \in {"network", "md5", "zip", "missing"}
          /\ marker.exists
    /\ (dlPc = "ret_ok" /\ nreq >= 1) =>
          /\ ~marker.exists
          /\ ~part.exists
          /\ tflite

\* C27 witness: the second run of the process fetched the archive and
\* returned success; the marker its first, failed run left is gone, and so
\* is .part.
C27_Witness ==
    /\ dlPc = "ret_ok"
    /\ invocations = 2
    /\ nreq >= 1
    /\ ~marker.exists
    /\ ~part.exists

\* C28: one invocation of download_with_resume issues at most 5 requests and
\* always returns; after a failed attempt that is not the fifth it waits 5 s,
\* then 10 s, 20 s, 40 s before the next request, and after the fifth failed
\* attempt it returns an error without another request.
C28_BoundedAttempts ==
    /\ [](nreq <= 5)
    /\ [][dlPc = "attempt" =>
            /\ nreq' = nreq + 1
            /\ nreq' = attempt
            /\ dlPc' = "attempt" =>
                  /\ attempt < 5
                  /\ attempt' = attempt + 1
                  /\ clock' - clock = <<5, 10, 20, 40>>[attempt]
            /\ dlPc' = "dl_err" => (attempt = 5 /\ clock' = clock)
            /\ dlPc' \in {"attempt", "dl_err", "dl_ok"}]_vars
    /\ [][nreq' > nreq => dlPc = "attempt"]_vars
    /\ (dlPc = "attempt") ~> (dlPc \in {"dl_ok", "dl_err"})

\* C28 witness: the fifth request failed as the four before it: the call
\* returned the error 5 + 10 + 20 + 40 s after its first request.
C28_Witness ==
    /\ dlPc = "dl_err"
    /\ invocations = 1
    /\ nreq = 5
    /\ attempt = 5
    /\ clock = 1000 + 75

\* ------------------------------------------------------------------------
\* Properties of the processing server (checked under Spec and FairSpec)
\* ------------------------------------------------------------------------

IntegrityFailures == {"md5", "zip", "missing"}

\* C4: an artifact-integrity failure for one model (checksum mismatch, corrupt
\* archive, expected file missing after extraction) is fatal for that model
\* only: its backoff marker is written and the process goes on to the other
\* models instead of exiting.
C4_IntegrityFailureIsolated ==
    \A m \in Models :
        acq[m] \in IntegrityFailures =>
            /\ markers[m].exists
            /\ mainPc # "exit_err"

\* The models whose load_model returned Ok.
LoadedOk == {m \in Models : loadRes[m] = "ok"}

\* C5: a panic inside load_model for one model is caught at the load boundary:
\* the process does not exit, the model is left out of the loaded set, the
\* models handed to the poll loop are exactly those that loaded, the loop is
\* left only on shutdown, and with nothing loaded it idles at its top.
C5_LoadPanicCaught ==
    (\E m \in Models : loadRes[m] = "panic") =>
        /\ mainPc # "exit_err"
        /\ \A m \in Models : loadRes[m] = "panic" => m \notin ToSet(loaded)
        /\ mainPc = "poll" => (ToSet(loaded) = LoadedOk /\ pollPc # "off")
        /\ mainPc \in {"drop_tx", "join", "unregister", "stopped"} => shutdown
        /\ (mainPc = "poll" /\ loaded = <<>>) => pollPc = "top"

\* C5 witness: one model panicked while loading and the poll loop is analysing
\* a recording with the model that loaded.
C5_Witness ==
    /\ \E m \in Models : loadRes[m] = "panic"
    /\ loaded # <<>>
    /\ mainPc = "poll"
    /\ pollPc = "process"

\* C6: the poll loop sends DELETE for a recording only after process_file
\* returned without error for it.
C6_DeleteOnlyAfterSuccess ==
    [][(pollPc = "delete" /\ pollPc' # "delete") => analysis.ok]_vars

\* C7: for a batch of exactly one detection and no failing write, the reporter
\* ends the batch with one row, one clip and one PNG for the detection, in
\* every interleaving with the poll thread.
C7_OneRowClipPng ==
    (repPc = "cleanup" /\ Len(repPayload.dets) = 1 /\ repFault = {}) =>
        LET m == repPayload.dets[1]
        IN  /\ rows[<<repPayload.src, repPayload.file, m>>] = 1
            /\ ClipPath(repPayload.file, m) \in clips
            /\ ClipPath(repPayload.file, m) \in pngs

\* C8: when only clip extraction or spectrogram rendering failed in a batch,
\* every detection of the batch still has its row.
C8_RowDespiteMediaFailure ==
    (repPc = "cleanup" /\ repFault # {} /\ repFault \subseteq {"disk", "png"}) =>
        \A i \in 1..Len(repPayload.dets) :
            rows[<<repPayload.src, repPayload.file, repPayload.dets[i]>>] >= 1

\* C9: when inference failed for one model on a file, the detections of the
\* other loaded models for the file are still sent to the reporter.
C9_OtherModelsStillReported ==
    (pollPc = "unlink" /\ analysis.failed # {} /\ analysis.dets # <<>>) =>
        analysis.sent

\* C10: a listing failure leaves the loop running and moves it to the next
\* peer of the same iteration, recording nothing against the failed peer, so
\* that a later answer of the peer is handled like any other.
\* Once no further request fails, every unseen recording of a peer whose
\* listing failed is processed by the running loop, unless the loop is shut
\* down, discovery stops naming the peer, or the recording leaves the peer.
C10_ListFailureSkipsPeerOnly ==
    /\ [][(poll_peer /\ pollPc = "peer" /\ faults' = faults + 1) =>
            /\ mainPc' = "poll"
            /\ pollPc' = "peer"
            /\ peerIdx' = peerIdx + 1
            /\ processed' = processed
            /\ urls' = urls
            /\ remote' = remote]_vars
    /\ \A p \in Peers, f \in Files :
          (/\ p \in everFailed
           /\ faults = MaxFaults
           /\ f \in remote[p]
           /\ <<p, f>> \notin processed)
          ~> (\/ <<p, f>> \in processed
              \/ shutdown
              \/ p \notin ToSet(urls)
              \/ f \notin remote[p])

\* C10 witness: a peer whose listing failed earlier in this run has since been
\* listed, and a recording of it downloaded, analysed and reported.
C10_Witness ==
    \E p \in everFailed, f \in Files, m \in Models :
        /\ <<p, f>> \in processed
        /\ rows[<<p, f, m>>] = 1
        /\ mainPc = "poll"

\* The positions of main() after poll_and_process returned, in program order.
MainRank ==
    [x \in {"ensure", "load", "start", "poll", "drop_tx", "join",
            "unregister", "stopped", "exit_err"} |->
        CASE x = "drop_tx" -> 1
          [] x = "join" -> 2
          [] x = "unregister" -> 3
          [] x = "stopped" -> 4
          [] OTHER -> 0]

\* C11: once the shutdown flag is set the poll loop starts no further download
\* (it only finishes the recording whose check already passed) and exits; then
\* the result channel is dropped, then the reporting thread is joined, then
\* discovery is unregistered, in that order, with or without loaded models.
C11_ShutdownOrder ==
    /\ [][/\ (shutdown /\ pollPc # "process") => pollPc' # "process"
          /\ (shutdown /\ pollPc = "top") => pollPc' \in {"top", "exited"}
          /\ mainPc' # mainPc =>
               \/ MainRank[mainPc'] = 0 /\ MainRank[mainPc] = 0
               \/ MainRank[mainPc'] = MainRank[mainPc] + 1
          /\ (mainPc = "poll" /\ mainPc' # "poll") =>
               (shutdown /\ pollPc' = "exited")
          /\ (mainPc = "join" /\ mainPc' # "join") =>
               (repPc = "done" /\ chan = <<>>)]_vars
    /\ shutdown ~> (pollPc = "exited")

\* C11 witness: shutdown was requested while a recording was being analysed;
\* the loop has exited, the reporter was joined and discovery unregistered.
C11_Witness ==
    /\ mainPc = "stopped"
    /\ shutdown
    /\ processed # {}
    /\ repPc = "done"

InPeerPoll == pollPc \in {"rec", "process", "unlink", "delete"}

\* C13: within one poll of one peer the recordings are downloaded and analysed
\* in the order of the peer's listing (the position in the listing only moves
\* forward, one recording at a time, and the file downloaded and the batch sent
\* are those of that position), and the reporter takes the batches in the
\* order in which they were sent.
C13_ListingOrder ==
    [][/\ (InPeerPoll /\ pollPc' \in {"rec", "process", "unlink", "delete"}) =>
            /\ recordings' = recordings
            /\ peerIdx' = peerIdx
            /\ recIdx' \in {recIdx, recIdx + 1}
            /\ recIdx' = recIdx + 1 =>
                 (pollPc = "delete" \/ (pollPc = "rec" /\ pollPc' = "rec"))
       /\ (pollPc = "rec" /\ pollPc' = "process") =>
            local'[recordings[recIdx]] = urls[peerIdx]
       /\ Len(chan') > Len(chan) =>
            /\ pollPc = "process"
            /\ Len(chan') = Len(chan) + 1
            /\ SubSeq(chan', 1, Len(chan)) = chan
            /\ chan'[Len(chan')].file = recordings[recIdx]
            /\ chan'[Len(chan')].src = urls[peerIdx]
       /\ repPayload' # repPayload =>
            (chan # <<>> /\ repPayload' = Head(chan) /\ chan' = Tail(chan))]_vars

\* C13 witness: two recordings of one listing were analysed in listing order;
\* the reporter is handling the batch of the first while the batch of the
\* second waits in the channel.
C13_Witness ==
    /\ Len(recordings) = 2
    /\ repPc = "detect"
    /\ repPayload.file = recordings[1]
    /\ chan # <<>>
    /\ Head(chan).file = recordings[2]
    /\ Head(chan).src = repPayload.src

\* C15: when the reporter finds the source segment of a batch already removed
\* locally, its DELETE goes to the peer the segment was downloaded from, and
\* it removes a recording from no other peer.
C15_DeleteAddressedToSource ==
    [][(repPc = "cleanup" /\ repPc' = "recv"
          /\ local[repPayload.file] = 0) =>
          /\ delete_from_capture_target(repPayload) = repPayload.src
          /\ \A p \in Peers :
               p # repPayload.src => remote'[p] = remote[p]]_vars

\* ------------------------------------------------------------------------
\* Properties of the processed-set (checked under SpecCap)
\* ------------------------------------------------------------------------

\* C14 as stated: the processed-set never holds more than 10 000 entries in
\* any reachable state of the poll loop.
C14_NeverAboveCap == plen <= PROCESSED_MAX

\* C14 amended: the processed-set holds at most 10 000 entries whenever an
\* iteration of the poll loop begins; within an iteration it can exceed
\* 10 000 by at most the number of new recordings of that iteration, and it
\* only ever shrinks by being cleared wholesale at the end of an iteration in
\* which it holds more than 10 000.
C14_CapAtIterationStart ==
    /\ [](capPc = "top" => plen <= PROCESSED_MAX)
    /\ [](plen <= PROCESSED_MAX + MaxListed)
    /\ [][plen' < plen =>
            (plen' = 0 /\ plen > PROCESSED_MAX /\ capPc' = "top")]_vars

\* C14 witness: the set holds more than 10 000 entries at the end-of-iteration
\* test that clears it.
C14_Witness ==
    /\ capPc = "iter"
    /\ capLeft = 0
    /\ plen > PROCESSED_MAX

\* ------------------------------------------------------------------------
\* Properties of the detection pipeline (checked under SpecFh and SpecAn)
\* ------------------------------------------------------------------------

\* Chunk i of the call's input has a "Human" label within its first R entries.
HumanChunk(i) ==
    \E j \in 1..Len(fnIn[i]) :
        /\ j <= human_cutoff(fnCfg.privacy_threshold)
        /\ fnIn[i][j][1] \in HumanLabels

\* C18: for a birds model, a chunk with a label containing "Human" within its
\* top-R predictions makes the filter output of that chunk and of its two
\* neighbours exactly the single entry ("Human_Human", 0.0); a chunk that is
\* neither human nor next to a human chunk is not replaced (it keeps its first
\* ten predictions).
C18_HumanDilation ==
    (fnPc = "out" /\ fnCfg.domain = "birds") =>
        /\ Len(fnOut) = Len(fnIn)
        /\ \A i \in 1..Len(fnIn) :
             /\ HumanChunk(i) =>
                  \A k \in {i - 1, i, i + 1} \cap (1..Len(fnIn)) :
                      fnOut[k] = SyntheticHuman
             /\ (\A k \in {i - 1, i, i + 1} \cap (1..Len(fnIn)) :
                     ~HumanChunk(k)) =>
                  (fnOut[i] = Take(fnIn[i], 10) /\ fnOut[i] # SyntheticHuman)

\* C18 witness: with cutoff 15, a first chunk whose "Human" label is at
\* position 11 silences itself and the second chunk; the third chunk, whose
\* "Human" label is at position 16, keeps its first ten predictions.
C18_Witness ==
    /\ fnPc = "out"
    /\ fnCfg.domain = "birds"
    /\ fnCfg.privacy_threshold = 8
    /\ fnIn = <<Chunk(11), Chunk(0), Chunk(16)>>
    /\ fnOut = <<SyntheticHuman, SyntheticHuman, Take(Chunk(16), 10)>>

\* C19: when the occurrence gate returns a non-empty list, a prediction at or
\* above the confidence threshold whose label is neither in that list nor in
\* the whitelist produces no detection.
C19_OccurrenceGate ==
    (fnPc = "out" /\ fnCfg.gate # {}) =>
        \A i \in 1..Len(fnOut) :
            fnOut[i].scientific_name \in fnCfg.gate \cup fnCfg.whitelist

\* C20: a prediction yields a detection only if its unrounded score is at or
\* above the configured minimum confidence; the stored confidence is the score
\* rounded to four decimals, and a score that reaches the threshold only once
\* rounded yields no detection.
C20_ThresholdBeforeRounding ==
    fnPc = "out" =>
        /\ \A i \in 1..Len(fnOut) :
             \E j \in 1..Len(fnIn) :
                 /\ fnIn[j][2] >= fnCfg.confidence
                 /\ fnOut[i].scientific_name = fnIn[j][1]
                 /\ fnOut[i].confidence = ((fnIn[j][2] + 5) \div 10) * 10
        /\ Len(fnOut) <=
             Cardinality({j \in 1..Len(fnIn) : fnIn[j][2] >= fnCfg.confidence})
        /\ (fnCfg.include = {} /\ fnCfg.exclude = {}) =>
             Len(fnOut) =
               Cardinality({j \in 1..Len(fnIn) :
                              fnIn[j][2] >= fnCfg.confidence})

\* C20 witness: 0.70004 is stored as 0.7000; 0.69995, which rounds to 0.7000,
\* is below the threshold 0.7 and yields nothing.
C20_Witness ==
    /\ fnPc = "out"
    /\ fnIn = <<<<"Turdus merula", 70004>>, <<"Parus major", 69995>>>>
    /\ fnOut = <<[scientific_name |-> "Turdus merula", confidence |-> 70000]>>

\* C21: every detection of chunk i (counted from 0) has start = i * (L -
\* overlap), stop = start + L and 0 <= start < stop, and its wall-clock
\* datetime is the datetime of the file name plus start, whatever the
\* datetime of the file name.
C21_TimeLabels ==
    fnPc = "out" =>
        \A i \in 1..Len(fnOut) :
            /\ fnOut[i].start = (i - 1) * (fnCfg.chunk_duration - fnCfg.overlap)
            /\ fnOut[i].stop = fnOut[i].start + fnCfg.chunk_duration
            /\ 0 <= fnOut[i].start
            /\ fnOut[i].start < fnOut[i].stop
            /\ fnOut[i].datetime = fnIn.file_date + fnOut[i].start

\* floor(max(0, L - M*R) / ((S - O)*R)) + 1 when a chunk of at least M*R
\* samples exists, else 0; for an overlap below the chunk length.
ExpectedChunks(L, cfg) ==
    IF 2 * L >= cfg.min_len * cfg.rate /\ cfg.seconds >= cfg.min_len /\ L > 0
    THEN (Max(0, 2 * L - cfg.min_len * cfg.rate)
            \div ((cfg.seconds - cfg.overlap) * cfg.rate)) + 1
    ELSE 0

\* C22: split_signal returns; the number of chunks it returns is
\* floor(max(0, L - M*R) / ((S - O)*R)) + 1 when there is a chunk of at least
\* M*R samples and 0 otherwise; every chunk has exactly S*R samples, a short
\* last chunk being filled with zeros.
C22_ChunkCount ==
    /\ fnPc # "abort"
    /\ fnPc = "out" =>
         /\ fnCfg.seconds > fnCfg.overlap =>
              Len(fnOut.chunks) = ExpectedChunks(Len(fnIn), fnCfg)
         /\ \A k \in 1..Len(fnOut.chunks) :
              LET c == fnOut.chunks[k]
                  s == split(fnIn, (k - 1) * step(fnCfg), fnCfg)
              IN  /\ 2 * Len(c) = fnCfg.seconds * fnCfg.rate
                  /\ SubSeq(c, 1, Len(s)) = s
                  /\ \A j \in (Len(s) + 1)..Len(c) : c[j] = 0

\* ------------------------------------------------------------------------
\* Properties of model loading (checked under SpecVf)
\* ------------------------------------------------------------------------

\* The checks of the model file, in the order in which a failure is
\* reported: TRUE when the file passes.
TfliteChecks(file) ==
    <<<<"not found", file.exists>>,
      <<"empty", file.len # 0>>,
      <<"suspiciously small", file.len >= 1024>>,
      <<"zip archive",
        ~(Len(file.header) >= 4 /\
          \A k \in 1..4 : file.header[k] = <<80, 75, 3, 4>>[k])>>,
      <<"HTML page",
        ~(Len(file.header) >= 2 /\ file.header[1] = 60 /\
          file.header[2] \in {33, 104, 72})>>,
      <<"schema identifier",
        Len(file.header) >= 8 /\
        \A k \in 1..4 : file.header[4 + k] = <<84, 70, 76, 51>>[k]>>,
      <<"root table offset",
        Len(file.header) >= 4 /\
        file.header[1] + 256 * file.header[2] + 65536 * file.header[3]
          + 16777216 * file.header[4] < file.len>>>>

TwoDigits(k) ==
    LET d == <<"0", "1", "2", "3", "4", "5", "6", "7", "8", "9">>
    IN  IF k < 100 THEN <<d[(k \div 10) + 1], d[(k % 10) + 1]>>
        ELSE <<d[(k \div 100) + 1], d[((k \div 10) % 10) + 1],
               d[(k % 10) + 1]>>

\* C24: a node that registers claims the smallest positive integer that is
\* not among the numbers of the instances its scan resolved, and its name is
\* the role's prefix, "-", and that number written with at least two digits;
\* when the scan resolved every instance registered before it, the name
\* differs from the names of all of them.
C24_SmallestFreeNumber ==
    [][\A n \in Nodes :
          (reg[n].pc = "scan" /\ reg'[n].pc = "up") =>
              \E k \in 1..(Cardinality(reg[n].existing) + 1) :
                  /\ k \notin reg[n].existing
                  /\ \A j \in 1..(k - 1) : j \in reg[n].existing
                  /\ reg'[n].name.prefix = "capture"
                  /\ reg'[n].name.suffix = TwoDigits(k)
                  /\ (\A i \in mdns :
                         parse_instance_number(i.name, "capture") # -1 =>
                             parse_instance_number(i.name, "capture")
                                 \in reg[n].existing) =>
                       \A i \in mdns : i.name # reg'[n].name]_vars

\* C24 witness: a node whose scan resolved "capture-01" and "capture-+3"
\* registered as "capture-02".
C24_Witness ==
    \E n \in Nodes :
        /\ reg[n].pc = "up"
        /\ reg[n].existing = {1, 3}
        /\ reg[n].name = [prefix |-> "capture", suffix |-> <<"0", "2">>]

\* C25: for every manifest and every variant it declares, applying the
\* variant a second time succeeds and leaves the manifest the first
\* application left.
C25_ApplyVariantIdempotent ==
    (/\ fnPc = "twice"
     /\ fnIn.download # <<>>
     /\ fnCfg \in DOMAIN fnIn.download[1]) =>
        /\ fnOut[1].result = "Ok"
        /\ fnOut[2].result = "Ok"
        /\ fnOut[2].manifest = fnOut[1].manifest

\* C25 witness: the variant replaces the model file, the labels file and the
\* file of the metadata model; the second application changes nothing.
C25_Witness ==
    /\ fnPc = "twice"
    /\ fnCfg = "fp32"
    /\ fnIn.tflite_file = "audio-model-fp16.tflite"
    /\ fnIn.metadata_model # <<>>
    /\ fnOut[1].manifest.tflite_file = "audio-model.tflite"
    /\ fnOut[1].manifest.labels_file = "labels_fp32.txt"
    /\ fnOut[1].manifest.metadata_model[1].tflite_file
         = "meta-model-fp32.tflite"
    /\ fnOut[2].manifest = fnOut[1].manifest

\* ------------------------------------------------------------------------
\* Properties of the result channel under load (checked under SpecCh)
\* ------------------------------------------------------------------------

\* C29: the channel never holds more than 16 batches; a send on a full
\* channel blocks, and returns only once the reporting thread took a batch;
\* while the reporting thread is alive every batch accepted by send is either
\* received or still queued, once and in the order sent.
C29_BoundedChannel ==
    /\ [](Len(queue) <= 16)
    /\ [][/\ (txPc = "idle" /\ txPc' = "blocked") =>
               (Len(queue) = 16 /\ queue' = queue /\ sentOk' = sentOk)
          /\ (txPc = "idle" /\ Len(queue) = 16 /\ rxPc # "dead"
                /\ nextBatch' # nextBatch) => FALSE
          /\ (txPc = "blocked" /\ txPc' = "idle" /\ rxPc # "dead") =>
               /\ Len(queue) < 16
               /\ queue' = Append(queue, nextBatch)
               /\ Len(received) > 0]_vars
    /\ [](rxPc # "dead" => received \o queue = sentOk)
    /\ [](\A i \in 1..Len(sentOk) : sentOk[i] = i)

\* C29 witness: sixteen batches are queued behind the one being handled and
\* the poll thread is blocked in send with the eighteenth.
C29_Witness ==
    /\ txPc = "blocked"
    /\ rxPc = "busy"
    /\ Len(queue) = 16
    /\ received = <<1>>
    /\ nextBatch = 18

\* ------------------------------------------------------------------------
\* Properties of the row inserts of a batch (checked under SpecDb)
\* ------------------------------------------------------------------------

\* C30: the insert of a row is tried at most three times; every failed try
\* is followed by a pause of 2 s; the first try that succeeds inserts the
\* row and ends the tries; the row is reported as failed only after three
\* failed tries, and the rows after it are then handled as after a success.
C30_InsertRetry ==
    /\ [](\A r \in DOMAIN fnOut.tries : fnOut.tries[r] <= 3)
    /\ [](\A r \in fnOut.failed : fnOut.tries[r] = 3 /\ r \notin fnOut.inserted)
    /\ [][/\ fnOut'.inserted # fnOut.inserted =>
               /\ fnOut'.inserted = fnOut.inserted \cup {fnOut.row}
               /\ fnOut'.tries[fnOut.row] = fnOut.tries[fnOut.row] + 1
               /\ fnOut'.clock = fnOut.clock
               /\ fnOut'.row = fnOut.row + 1
          /\ fnOut'.failed # fnOut.failed =>
               /\ fnOut'.failed = fnOut.failed \cup {fnOut.row}
               /\ fnOut.tries[fnOut.row] = 3
               /\ fnOut'.tries = fnOut.tries
               /\ fnOut'.clock = fnOut.clock
               /\ fnOut'.row = fnOut.row + 1
               /\ fnPc' = IF fnOut.row < fnIn THEN "extract" ELSE "out"
          /\ (fnPc = "insert" /\ fnPc' = "insert") =>
               /\ fnOut'.row = fnOut.row
               /\ fnOut'.tries[fnOut.row] = fnOut.tries[fnOut.row] + 1
               /\ fnOut'.clock = fnOut.clock + 2
               /\ fnOut'.inserted = fnOut.inserted
          /\ fnOut'.tries # fnOut.tries =>
               \/ fnOut'.inserted # fnOut.inserted
               \/ fnOut'.clock = fnOut.clock + 2]_vars

\* C30 witness: the first row was inserted at its third try, 4 s after the
\* first; the second row failed three times and was reported; the third row
\* was inserted at its first try.
C30_Witness ==
    /\ fnPc = "out"
    /\ fnIn = 3
    /\ fnOut.inserted = {1, 3}
    /\ fnOut.failed = {2}
    /\ fnOut.tries = <<3, 3, 1>>
    /\ fnOut.clock = 10

\* ------------------------------------------------------------------------
\* Properties of the capture URLs (checked under SpecUrl)
\* ------------------------------------------------------------------------

C32_PreferredAddress ==
    fnPc = "done" =>
        \A j \in 1..Len(fnOut.peers) :
           LET a == fnOut.peers[j].addresses
               u == http_url(fnOut.peers[j])
               chosen == {k \in 1..Len(a) : u = <<a[k].host>>}
           IN  a # <<>> =>
                 \E k \in chosen :
                    /\ (\E m \in 1..Len(a) : ~a[m].is_loopback)
                          => ~a[k].is_loopback
                    /\ (\E m \in 1..Len(a) :
                           a[m].is_ipv4 /\ a[m].is_loopback = a[k].is_loopback)
                          => a[k].is_ipv4

\* ------------------------------------------------------------------------
\* Properties of the cutoff rank (checked under SpecHc); P = fnIn / 32
\* ------------------------------------------------------------------------

\* C33 as stated: the cutoff is max(10, round(60 P)): 10, or the integer
\* nearest to 60 P (60 P = 60 * fnIn / 32, compared in 1/32).
C33_CutoffRounded ==
    fnPc = "out" =>
        /\ fnOut >= 10
        /\ fnOut > 10 => (32 * fnOut - 16 <= 60 * fnIn
                            /\ 60 * fnIn < 32 * fnOut + 16)
        /\ fnOut = 10 => 60 * fnIn < 32 * 10 + 16

\* C33 amended: the cutoff is max(10, floor(60 P)): 60 P is truncated.
C33_CutoffTruncated ==
    fnPc = "out" =>
        /\ fnOut >= 10
        /\ fnOut > 10 => (32 * fnOut <= 60 * fnIn
                            /\ 60 * fnIn < 32 * (fnOut + 1))
        /\ fnOut = 10 => 60 * fnIn < 32 * 11

\* C33 witness: P = 9/32 %, 60 P = 16.875, and the cutoff is 16, not 17.
C33_Witness ==
    /\ fnPc = "out"
    /\ fnIn = 9
    /\ fnOut = 16

\* ------------------------------------------------------------------------
\* Properties of the clip window (checked under SpecEx)
\* ------------------------------------------------------------------------

\* C34: when the extraction length is at least the detection's length, the
\* clip starts and ends half the difference before and after the detection,
\* cut to the start and the end of the recording (compared doubled).
C34_SymmetricWindow ==
    (fnPc = "out" /\ 2 * fnCfg.extraction_length >= fnIn.stop - fnIn.start) =>
        LET grow == 2 * fnCfg.extraction_length - (fnIn.stop - fnIn.start)
        IN  /\ 2 * fnOut.start = Max(2 * fnIn.start - grow, 0)
            /\ 2 * fnOut.stop = Min(2 * fnIn.stop + grow, 2 * fnIn.frames)

\* ------------------------------------------------------------------------
\* Properties of the temp files of the server (checked under Spec)
\* ------------------------------------------------------------------------

\* C35: the reporting thread extracts clips from, and removes, only the
\* local file of the recording its batch was analysed from: whenever it
\* writes a clip or removes the local file, the file under the batch's path
\* is the download of the batch's own recording.
C35_ReporterOwnFile ==
    [][/\ (repPc = "detect" /\ clips' # clips)
            => local[repPayload.file] = repPayload.src
       /\ (repPc = "cleanup" /\ repPc' = "recv" /\ local' # local)
            => local[repPayload.file] = repPayload.src]_vars

\* ------------------------------------------------------------------------
\* Properties of a recording that stays listed (checked under SpecCap)
\* ------------------------------------------------------------------------

\* C36 as stated: within one session a recording that stays in its peer's
\* listing because its DELETE fails is downloaded and analysed at most once.
C36_AtMostOnce == relisted.runs <= 1

\* C36 amended: such a recording is downloaded and analysed only while its
\* key is not in the processed-set, and its key leaves the set only when the
\* set is cleared wholesale because it holds more than 10 000 keys: at most
\* once between two clears.
C36_OncePerClear ==
    /\ [][relisted'.runs # relisted.runs =>
            /\ ~relisted.known
            /\ relisted'.known
            /\ relisted'.runs = relisted.runs + 1]_vars
    /\ [][(relisted.known /\ ~relisted'.known) =>
            (plen > PROCESSED_MAX /\ plen' = 0)]_vars

\* C36 witness: the recording was analysed once, its key is in the set, and
\* it is listed again.
C36_Witness ==
    /\ capPc = "iter"
    /\ relisted.listed
    /\ relisted.known
    /\ relisted.runs = 1
    /\ plen > 1

\* ------------------------------------------------------------------------
\* Properties of a leftover .download.part (checked under SpecDl)
\* ------------------------------------------------------------------------

\* C37: a .part that fails the checksum or cannot be extracted is discarded,
\* so that the invocation after a failed verification or extraction starts
\* without a .part and downloads the archive afresh.
C37_FailedPartDiscarded ==
    [][(dlPc = "dl_ok" /\ dlPc' = "de_err") => part' = NoFile]_vars

\* ------------------------------------------------------------------------
\* Termination of split_signal (checked under FairSpecSs)
\* ------------------------------------------------------------------------

\* C38: every call of split_signal returns its list of chunks.
C38_SplitTerminates == <>(fnPc = "out")

\* ------------------------------------------------------------------------
\* Chunks of short-chunk models (checked under SpecSs)
\* ------------------------------------------------------------------------

\* C39: with the minimum length of 1.5 s that read_audio passes, a signal at
\* least one chunk long gives at least one chunk, whatever the chunk duration.
C39_AtLeastOneChunk ==
    (/\ fnPc = "out"
     /\ fnCfg.min_len = 3
     /\ Len(fnIn) > 0
     /\ Len(fnIn) >= chunk_samples(fnCfg)) => Len(fnOut.chunks) >= 1

\* ------------------------------------------------------------------------
\* Properties of the local path (checked under SpecPath)
\* ------------------------------------------------------------------------

\* C40: every file the poll loop writes or removes lies inside the
\* processing_tmp directory.
C40_InsideTmpDir ==
    \A path \in fnOut.written \cup fnOut.removed :
        /\ Len(path) > Len(tmp_dir)
        /\ SubSeq(path, 1, Len(tmp_dir)) = tmp_dir

====
